---- MODULE Spec2Model ----
(***************************************************************************)
(* Forum content store of MERN-Forum: the Express handlers of              *)
(* backend/src/graphql/typeDefs.js (createBoard, deleteBoard, editBoard,   *)
(* createThread, deleteThread, editThread, adminEditThread, likeThread,    *)
(* createAnswer, deleteAnswer, editAnswer, likeAnswer) over the Board,     *)
(* Thread and Answer collections.  Every handler is an async function;     *)
(* each `await` on the store is one atomic step of the request, and steps  *)
(* of different requests interleave freely.  No handler emits an event:    *)
(* the variable events stays as it starts.                                 *)
(*                                                                         *)
(* Store semantics are those of MongoDB/Mongoose 5:                        *)
(*  - Model.updateOne(filter, {$inc, field}) is one atomic update of the   *)
(*    matching document and a no-op when none matches;                     *)
(*  - doc.delete() is deleteOne({_id}) and succeeds when nothing matches;  *)
(*  - doc.save() of a loaded document sends the delta of the modified      *)
(*    paths: array.push(x) is sent as $push (applied to the stored array,  *)
(*    version incremented), an assignment to the array path is sent as     *)
(*    $set of the whole array guarded by the version read (__v); save()    *)
(*    rejects when no document matches.                                    *)
(***************************************************************************)
EXTENDS Integers, Sequences, FiniteSets, TLC

\* ---------------------------------------------------------------- bounds
MaxReq == 2        \* requests issued in one behaviour (one slot each)
MaxBoards == 2     \* board ids; board 1 exists initially, the others name no board
MaxThreads == 3    \* thread ids ever allocated
MaxAnswers == 3    \* answer ids ever allocated
MaxUsers == 2      \* callers that like
MaxClock == 2      \* distinct values of Date.now()
MaxFeed == 21      \* notifications the server ever holds for the user

\* ------------------------------------------------------ program constants
TitleCap == 100
BodyCap == 1000
NoTime == -1       \* a timestamp field the handler did not set
Limit == 10        \* notifications per page
NoPage == 0        \* nextPage: null

Procs == 1..MaxReq
BoardIds == 1..MaxBoards
ThreadIds == 1..MaxThreads
AnswerIds == 1..MaxAnswers
Users == 1..MaxUsers
Authors == {1}
Roles == {"user", "admin"}
NoId == 0          \* an empty id in the request body (falsy)

Min(a, b) == IF a < b THEN a ELSE b
Range(s) == {s[i] : i \in DOMAIN s}

VARIABLES boards, threads, answers, nextBoard, nextThread, nextAnswer, clock,
          events, req, likes0, card, dropdown, notes

vars ==
  <<boards, threads, answers, nextBoard, nextThread, nextAnswer, clock, events,
    req, likes0, card, dropdown, notes>>

\* A missing document (findById returns null).
Null == [exists |-> FALSE]

\* The text of a request field: its length and whether trim() leaves nothing.
Text(n, b) == [len |-> n, blank |-> b]
TextIn == {Text(1, TRUE), Text(2, FALSE)}

\* A text longer than both caps.
LongText == Text(BodyCap + 1, FALSE)

\* The title and body of a createThread request: one of them blank, or a
\* title below its cap with a body above its cap; the body of a createAnswer
\* request: blank, short or longer than the cap.
CreateTexts ==
  {<<Text(1, TRUE), Text(2, FALSE)>>, <<Text(2, FALSE), Text(1, TRUE)>>,
   <<Text(2, FALSE), LongText>>}
AnswerTexts == TextIn \cup {LongText}

\* A substring that returns the whole text.
Substring_Whole(t, cap) == t.len

\* String.prototype.substring(0, cap) on a text of length n.
Substring(t, cap) == Min(t.len, cap)

Store == [boards |-> boards, threads |-> threads, answers |-> answers]

Final == {"idle", "done", "failed", "hung"}
Quiescent == \A q \in Procs : req[q].pc \in Final

OnlyOps(ops) == \A p \in Procs : req[p].op \in ops \cup {"none"}

\* The position of a request body: missing, an integer, or a number with a
\* fraction (val its integer part).
NoPosition == [kind |-> "missing", val |-> 0]
PositionIn ==
  {NoPosition, [kind |-> "float", val |-> 1]} \cup
  {[kind |-> "int", val |-> v] : v \in -1..1}

\* A request slot.  op, pc, user and role (req.payload), id, now, name, title,
\* body, position, pined and closed (req.body; an optional flag is <<>> when
\* omitted; blank tells that title or body is empty after trim), snap (the
\* document read by findById), newId and status/out (the response) are the
\* handler's locals.  alone, pre and prev record the history the properties speak of:
\* whether no other request was in progress during this one, the store as
\* this request found it, and the likes before an immediately preceding
\* toggle by the same caller on the same document.
IdleReq ==
  [op |-> "none", pc |-> "idle", user |-> 0, role |-> "none", id |-> NoId,
   now |-> NoTime, name |-> 0, title |-> 0, body |-> 0, position |-> NoPosition,
   pined |-> <<>>, closed |-> <<>>, snap |-> Null, newId |-> NoId,
   blank |-> FALSE, status |-> 0, out |-> <<>>, alone |-> FALSE,
   pre |-> <<>>, prev |-> <<>>]

\* Slots are taken in order: slot p runs the p-th request of the behaviour.
CanStart(p) ==
  /\ req[p].pc = "idle"
  /\ IF p = 1 THEN TRUE ELSE req[p - 1].pc # "idle"

\* Slot p holds the request started last.
Last(p) == IF p = MaxReq THEN TRUE ELSE req[p + 1].pc = "idle"

\* The request r enters slot p.  It is alone when every other request has
\* finished, and the requests it finds in progress are no longer alone.
Started(p, r) ==
  [q \in Procs |->
     IF q = p
       THEN [r EXCEPT !.alone = Quiescent,
                      !.pre = IF Quiescent THEN <<Store>> ELSE <<>>]
       ELSE [req[q] EXCEPT !.alone = @ /\ req[q].pc \in Final, !.pre = <<>>]]

\* The creations that have not inserted their document yet (each will take
\* a fresh id).
Saving(op) == {q \in Procs : req[q].op = op /\ req[q].pc = "save"}

Rejected(op, code) == [IdleReq EXCEPT !.op = op, !.pc = "failed", !.status = code]

\* A role check that lets every caller through.
IsAdmin_Anyone(role) == TRUE

\* req.payload.role === 'admin'
IsAdmin(role) == role = "admin"

Unchanged_store == UNCHANGED <<boards, threads, answers, nextThread, nextAnswer>>

\* The ids a request can name in a collection whose next fresh id is next:
\* those allocated so far, and one that names no document.
IdsUpTo(ids, next) == {i \in ids : i <= next}

\* ------------------------------------------------------ ancestor updates

\* The update written without $inc: {threadsCount: 1, newestThread: now}.
BoardOnThreadCreated_Set(bs, b, now) ==
  IF b \in DOMAIN bs /\ bs[b].exists
    THEN [bs EXCEPT ![b].threadsCount = 1, ![b].newestThread = now]
    ELSE bs

\* Board.updateOne({_id}, {$inc: {threadsCount: 1}, newestThread: now})
BoardOnThreadCreated(bs, b, now) ==
  IF b \in DOMAIN bs /\ bs[b].exists
    THEN [bs EXCEPT ![b].threadsCount = @ + 1, ![b].newestThread = now]
    ELSE bs

\* Board.updateOne({_id}, {$inc: {threadsCount: -1}})
BoardOnThreadDeleted(bs, b) ==
  IF b \in DOMAIN bs /\ bs[b].exists
    THEN [bs EXCEPT ![b].threadsCount = @ - 1]
    ELSE bs

\* An update of the Board that counts the Answer and leaves newestAnswer.
BoardOnAnswerCreated_CountOnly(bs, b, now) ==
  IF b \in DOMAIN bs /\ bs[b].exists
    THEN [bs EXCEPT ![b].answersCount = @ + 1]
    ELSE bs

\* Board.updateOne({_id}, {$inc: {answersCount: 1}, newestAnswer: now})
BoardOnAnswerCreated(bs, b, now) ==
  IF b \in DOMAIN bs /\ bs[b].exists
    THEN [bs EXCEPT ![b].answersCount = @ + 1, ![b].newestAnswer = now]
    ELSE bs

\* An update of the Thread that counts the Answer twice.
ThreadOnAnswerCreated_Twice(ts, t, now) ==
  IF t \in DOMAIN ts /\ ts[t].exists
    THEN [ts EXCEPT ![t].answersCount = @ + 2, ![t].newestAnswer = now]
    ELSE ts

\* Thread.updateOne({_id}, {$inc: {answersCount: 1}, newestAnswer: now})
ThreadOnAnswerCreated(ts, t, now) ==
  IF t \in DOMAIN ts /\ ts[t].exists
    THEN [ts EXCEPT ![t].answersCount = @ + 1, ![t].newestAnswer = now]
    ELSE ts

\* An update of the Thread that also clears newestAnswer.
ThreadOnAnswerDeleted_Reset(ts, t) ==
  IF t \in DOMAIN ts /\ ts[t].exists
    THEN [ts EXCEPT ![t].answersCount = @ - 1, ![t].newestAnswer = NoTime]
    ELSE ts

\* Thread.updateOne({_id}, {$inc: {answersCount: -1}})
ThreadOnAnswerDeleted(ts, t) ==
  IF t \in DOMAIN ts /\ ts[t].exists
    THEN [ts EXCEPT ![t].answersCount = @ - 1]
    ELSE ts

\* Answer.deleteMany({threadId})
AnswersDeleteMany(as, t) ==
  [a \in DOMAIN as |-> IF as[a].exists /\ as[a].threadId = t THEN Null ELSE as[a]]

\* new Thread({...}) as saved
NewThread(b, u, title, body, now) ==
  [exists |-> TRUE, boardId |-> b, author |-> u,
   title |-> Substring(title, TitleCap), body |-> Substring(body, BodyCap),
   pined |-> FALSE, closed |-> FALSE, edited |-> NoTime,
   createdAt |-> now, newestAnswer |-> now, answersCount |-> 0,
   likes |-> <<>>, v |-> 0]

\* An Answer filed under the first Board whatever its Thread's Board.
NewAnswer_FirstBoard(b, t, u, body, now) ==
  [exists |-> TRUE, boardId |-> 1, threadId |-> t, author |-> u,
   body |-> Substring(body, BodyCap), edited |-> NoTime,
   createdAt |-> now, likes |-> <<>>, v |-> 0]

\* new Answer({...}) as saved
NewAnswer(b, t, u, body, now) ==
  [exists |-> TRUE, boardId |-> b, threadId |-> t, author |-> u,
   body |-> Substring(body, BodyCap), edited |-> NoTime,
   createdAt |-> now, likes |-> <<>>, v |-> 0]

\* ---------------------------------------------------------- createThread

\* The upload callback: validation, `now`, the document built in memory.
CreateThreadStart(p) ==
  /\ CanStart(p)
  /\ nextThread + Cardinality(Saving("createThread")) <= MaxThreads
  /\ \E uploadErr \in BOOLEAN, b \in {NoId} \cup BoardIds, texts \in CreateTexts,
        u \in Authors, t \in clock..Min(clock + 1, MaxClock) :
       IF uploadErr \/ b = NoId \/ texts[1].blank \/ texts[2].blank
         THEN /\ req' = Started(p, Rejected("createThread", 400))
              /\ clock' = clock
         ELSE /\ req' = Started(p, [IdleReq EXCEPT !.op = "createThread", !.pc = "save",
                                      !.user = u, !.id = b, !.now = t,
                                      !.title = texts[1].len, !.body = texts[2].len])
              /\ clock' = t
  /\ Unchanged_store
  /\ UNCHANGED <<likes0, nextBoard, events, card, dropdown, notes>>

\* await newThread.save()
CreateThreadSave(p) ==
  /\ req[p].op = "createThread" /\ req[p].pc = "save"
  /\ threads' = [threads EXCEPT ![nextThread] =
                   NewThread(req[p].id, req[p].user, Text(req[p].title, FALSE),
                             Text(req[p].body, FALSE), req[p].now)]
  /\ nextThread' = nextThread + 1
  /\ req' = [req EXCEPT ![p].pc = "inc", ![p].newId = nextThread]
  /\ UNCHANGED <<boards, answers, nextAnswer, clock, likes0, nextBoard, events, card, dropdown, notes>>

\* await Board.updateOne(...); res.json(thread)
CreateThreadInc(p) ==
  /\ req[p].op = "createThread" /\ req[p].pc = "inc"
  /\ boards' = BoardOnThreadCreated(boards, req[p].id, req[p].now)
  /\ req' = [req EXCEPT ![p].pc = "done", ![p].status = 200]
  /\ UNCHANGED <<threads, answers, nextThread, nextAnswer, clock, likes0, nextBoard, events, card, dropdown, notes>>

\* ------------------------------------------------- createBoard, editBoard

\* The name and title of a board request: one of them empty, or neither;
\* and its body.
BoardTexts ==
  {<<Text(0, TRUE), Text(2, FALSE)>>, <<Text(2, FALSE), Text(0, TRUE)>>,
   <<Text(3, FALSE), Text(3, FALSE)>>}
BoardBody == Text(3, FALSE)

\* !position || !Number.isInteger(position) || position < 0
PositionRejected(pos) ==
  \/ pos.kind = "missing" \/ (pos.kind = "int" /\ pos.val = 0)
  \/ pos.kind # "int"
  \/ pos.val < 0

\* new Board({name, title, body, position, createdAt, threadsCount: 0,
\* answersCount: 0}) as saved
NewBoard(name, title, body, position, now) ==
  [exists |-> TRUE, name |-> name.len, title |-> title.len, body |-> body.len,
   position |-> position.val, threadsCount |-> 0, answersCount |-> 0,
   newestThread |-> NoTime, newestAnswer |-> NoTime, createdAt |-> now]

\* Board.updateOne({_id}, {name, title, body, position})
BoardOnEdit(bs, b, name, title, body, position) ==
  IF b \in DOMAIN bs /\ bs[b].exists
    THEN [bs EXCEPT ![b].name = name, ![b].title = title, ![b].body = body,
                    ![b].position = position]
    ELSE bs

\* A board request with the inputs it came with; one refused for the role
\* has read none.
BoardReq(op, role, b, name, title, body, pos) ==
  IF ~IsAdmin(role)
    THEN [IdleReq EXCEPT !.op = op, !.role = role, !.id = b]
    ELSE [IdleReq EXCEPT !.op = op, !.role = role, !.id = b, !.name = name.len,
                         !.title = title.len, !.body = body.len, !.position = pos]

\* The answer of the checks of createBoard and editBoard: 0 when they pass.
BoardChecks(role, name, title, pos) ==
  IF ~IsAdmin(role) THEN 401
  ELSE IF name.blank THEN 400
  ELSE IF title.blank THEN 400
  ELSE IF PositionRejected(pos) THEN 400
  ELSE 0

\* createBoard: the role check, the checks on name, title and position, the
\* document built in memory.
CreateBoardStart(p) ==
  /\ CanStart(p)
  /\ nextBoard + Cardinality(Saving("createBoard")) <= MaxBoards
  /\ \E role \in Roles, texts \in BoardTexts, pos \in PositionIn,
        t \in clock..Min(clock + 1, MaxClock) :
       LET name == texts[1]
           title == texts[2]
           r == BoardReq("createBoard", role, NoId, name, title, BoardBody, pos)
           code == BoardChecks(role, name, title, pos)
       IN IF code # 0
            THEN /\ req' = Started(p, [r EXCEPT !.pc = "failed", !.status = code])
                 /\ clock' = clock
            ELSE /\ req' = Started(p, [r EXCEPT !.pc = "save", !.now = t])
                 /\ clock' = t
  /\ Unchanged_store
  /\ UNCHANGED <<likes0, nextBoard, events, card, dropdown, notes>>

\* await newBoard.save(); res.json(board)
CreateBoardSave(p) ==
  /\ req[p].op = "createBoard" /\ req[p].pc = "save"
  /\ boards' = [boards EXCEPT ![nextBoard] =
                  NewBoard(Text(req[p].name, FALSE), Text(req[p].title, FALSE),
                           Text(req[p].body, FALSE), req[p].position,
                           req[p].now)]
  /\ nextBoard' = nextBoard + 1
  /\ req' = [req EXCEPT ![p].pc = "done", ![p].status = 200, ![p].newId = nextBoard]
  /\ UNCHANGED <<threads, answers, nextThread, nextAnswer, clock, likes0, events, card, dropdown, notes>>

\* editBoard: the same checks, then await Board.updateOne(...)
EditBoardUpdate(p) ==
  /\ CanStart(p)
  /\ \E role \in Roles, b \in IdsUpTo(BoardIds, nextBoard), texts \in BoardTexts,
        pos \in PositionIn :
       LET name == texts[1]
           title == texts[2]
           r == BoardReq("editBoard", role, b, name, title, BoardBody, pos)
           code == BoardChecks(role, name, title, pos)
       IN IF code # 0
            THEN /\ req' = Started(p, [r EXCEPT !.pc = "failed", !.status = code])
                 /\ boards' = boards
            ELSE /\ req' = Started(p, [r EXCEPT !.pc = "refetch"])
                 /\ boards' = BoardOnEdit(boards, b, name.len, title.len,
                                          BoardBody.len, pos.val)
  /\ UNCHANGED <<threads, answers, nextThread, nextAnswer, clock, likes0, nextBoard, events, card, dropdown, notes>>

\* await Board.findById(boardId); res.json(board)
EditBoardRefetch(p) ==
  /\ req[p].op = "editBoard" /\ req[p].pc = "refetch"
  /\ req' = [req EXCEPT ![p].pc = "done", ![p].status = 200]
  /\ Unchanged_store
  /\ UNCHANGED <<clock, likes0, nextBoard, events, card, dropdown, notes>>

\* ----------------------------------------------------------- deleteBoard

\* role and argument checks, then await Board.findById(boardId);
\* board.delete() on null throws inside the try block.
\* A deleteBoard that removes the Board before it looks at the caller's role.
DeleteBoardFind_DeleteFirst(p) ==
  /\ CanStart(p)
  /\ \E role \in Roles, b \in {NoId} \cup BoardIds :
       /\ req' = Started(p,
                   IF ~IsAdmin(role)
                     THEN [Rejected("deleteBoard", 401) EXCEPT !.role = role, !.id = b]
                   ELSE IF b = NoId
                     THEN [Rejected("deleteBoard", 400) EXCEPT !.role = role]
                   ELSE IF ~boards[b].exists
                     THEN [Rejected("deleteBoard", 500) EXCEPT !.role = role, !.id = b]
                   ELSE [IdleReq EXCEPT !.op = "deleteBoard", !.pc = "delete", !.role = role,
                                        !.id = b, !.snap = boards[b]])
       /\ boards' = IF b = NoId THEN boards ELSE [boards EXCEPT ![b] = Null]
  /\ UNCHANGED <<threads, answers, nextThread, nextAnswer>>
  /\ UNCHANGED <<clock, likes0, nextBoard, events, card, dropdown, notes>>

DeleteBoardFind(p) ==
  /\ CanStart(p)
  /\ \E role \in Roles, b \in {NoId} \cup BoardIds :
       req' = Started(p,
                IF ~IsAdmin(role)
                  THEN [Rejected("deleteBoard", 401) EXCEPT !.role = role, !.id = b]
                ELSE IF b = NoId
                  THEN [Rejected("deleteBoard", 400) EXCEPT !.role = role]
                ELSE IF ~boards[b].exists
                  THEN [Rejected("deleteBoard", 500) EXCEPT !.role = role, !.id = b]
                ELSE [IdleReq EXCEPT !.op = "deleteBoard", !.pc = "delete", !.role = role,
                                     !.id = b, !.snap = boards[b]])
  /\ Unchanged_store
  /\ UNCHANGED <<clock, likes0, nextBoard, events, card, dropdown, notes>>

\* A delete that takes the Threads of the Board with it.
DeleteBoardDelete_Cascade(p) ==
  /\ req[p].op = "deleteBoard" /\ req[p].pc = "delete"
  /\ boards' = [boards EXCEPT ![req[p].id] = Null]
  /\ threads' = [t \in ThreadIds |->
                   IF threads[t].exists /\ threads[t].boardId = req[p].id
                     THEN Null ELSE threads[t]]
  /\ req' = [req EXCEPT ![p].pc = "done", ![p].status = 200]
  /\ UNCHANGED <<answers, nextThread, nextAnswer, clock, likes0, nextBoard, events, card, dropdown, notes>>

\* await board.delete(); res.json
DeleteBoardDelete(p) ==
  /\ req[p].op = "deleteBoard" /\ req[p].pc = "delete"
  /\ boards' = [boards EXCEPT ![req[p].id] = Null]
  /\ req' = [req EXCEPT ![p].pc = "done", ![p].status = 200]
  /\ UNCHANGED <<threads, answers, nextThread, nextAnswer, clock, likes0, nextBoard, events, card, dropdown, notes>>

\* ---------------------------------------------------------- deleteThread

\* role and argument checks, then await Thread.findById(threadId);
\* thread.delete() on null throws inside the try block.
DeleteThreadFind(p) ==
  /\ CanStart(p)
  /\ \E role \in Roles, t \in {NoId} \cup ThreadIds :
       req' = Started(p,
                IF ~IsAdmin(role)
                  THEN [Rejected("deleteThread", 401) EXCEPT !.role = role, !.id = t]
                ELSE IF t = NoId
                  THEN [Rejected("deleteThread", 400) EXCEPT !.role = role]
                ELSE IF ~threads[t].exists
                  THEN [Rejected("deleteThread", 500) EXCEPT !.role = role, !.id = t]
                ELSE [IdleReq EXCEPT !.op = "deleteThread", !.pc = "delete", !.role = role,
                                     !.id = t, !.snap = threads[t]])
  /\ Unchanged_store
  /\ UNCHANGED <<clock, likes0, nextBoard, events, card, dropdown, notes>>

\* await thread.delete()
DeleteThreadDelete(p) ==
  /\ req[p].op = "deleteThread" /\ req[p].pc = "delete"
  /\ threads' = [threads EXCEPT ![req[p].id] = Null]
  /\ req' = [req EXCEPT ![p].pc = "deleteMany"]
  /\ UNCHANGED <<boards, answers, nextThread, nextAnswer, clock, likes0, nextBoard, events, card, dropdown, notes>>

\* await Answer.deleteMany({ threadId })
DeleteThreadAnswers(p) ==
  /\ req[p].op = "deleteThread" /\ req[p].pc = "deleteMany"
  /\ answers' = AnswersDeleteMany(answers, req[p].id)
  /\ req' = [req EXCEPT ![p].pc = "dec"]
  /\ UNCHANGED <<boards, threads, nextThread, nextAnswer, clock, likes0, nextBoard, events, card, dropdown, notes>>

\* await Board.updateOne(..., {$inc: {threadsCount: -1}}); res.json
DeleteThreadDec(p) ==
  /\ req[p].op = "deleteThread" /\ req[p].pc = "dec"
  /\ boards' = BoardOnThreadDeleted(boards, req[p].snap.boardId)
  /\ req' = [req EXCEPT ![p].pc = "done", ![p].status = 200]
  /\ UNCHANGED <<threads, answers, nextThread, nextAnswer, clock, likes0, nextBoard, events, card, dropdown, notes>>

\* ---------------------------------------------------------- createAnswer

\* A createAnswer that refuses to answer a closed Thread.
CreateAnswerFind_ClosedRefused(p) ==
  /\ CanStart(p)
  /\ nextAnswer + Cardinality(Saving("createAnswer")) <= MaxAnswers
  /\ \E uploadErr \in BOOLEAN, t \in {NoId} \cup ThreadIds, body \in AnswerTexts,
        u \in Authors, now \in clock..Min(clock + 1, MaxClock) :
       IF uploadErr \/ t = NoId \/ body.blank
         THEN /\ req' = Started(p, Rejected("createAnswer", 400))
              /\ clock' = clock
         ELSE /\ req' = Started(p,
                   IF ~threads[t].exists
                     THEN [IdleReq EXCEPT !.op = "createAnswer", !.pc = "hung", !.id = t]
                   ELSE IF threads[t].closed
                     THEN [Rejected("createAnswer", 400) EXCEPT !.id = t]
                     ELSE [IdleReq EXCEPT !.op = "createAnswer", !.pc = "save",
                                          !.user = u, !.id = t, !.now = now,
                                          !.body = body.len, !.snap = threads[t]])
              /\ clock' = now
  /\ Unchanged_store
  /\ UNCHANGED <<likes0, nextBoard, events, card, dropdown, notes>>

\* The upload callback: validation, `now`, await Thread.findById(threadId).
\* thread.boardId on null throws inside the callback, outside any try block
\* that could see it: no response is ever sent.
CreateAnswerFind(p) ==
  /\ CanStart(p)
  /\ nextAnswer + Cardinality(Saving("createAnswer")) <= MaxAnswers
  /\ \E uploadErr \in BOOLEAN, t \in {NoId} \cup ThreadIds, body \in AnswerTexts,
        u \in Authors, now \in clock..Min(clock + 1, MaxClock) :
       IF uploadErr \/ t = NoId \/ body.blank
         THEN /\ req' = Started(p, Rejected("createAnswer", 400))
              /\ clock' = clock
         ELSE /\ req' = Started(p,
                   IF ~threads[t].exists
                     THEN [IdleReq EXCEPT !.op = "createAnswer", !.pc = "hung", !.id = t]
                     ELSE [IdleReq EXCEPT !.op = "createAnswer", !.pc = "save",
                                          !.user = u, !.id = t, !.now = now,
                                          !.body = body.len, !.snap = threads[t]])
              /\ clock' = now
  /\ Unchanged_store
  /\ UNCHANGED <<likes0, nextBoard, events, card, dropdown, notes>>

\* await newAnswer.save()
CreateAnswerSave(p) ==
  /\ req[p].op = "createAnswer" /\ req[p].pc = "save"
  /\ answers' = [answers EXCEPT ![nextAnswer] =
                   NewAnswer(req[p].snap.boardId, req[p].id, req[p].user,
                             Text(req[p].body, FALSE), req[p].now)]
  /\ nextAnswer' = nextAnswer + 1
  /\ req' = [req EXCEPT ![p].pc = "incBoard", ![p].newId = nextAnswer]
  /\ UNCHANGED <<boards, threads, nextThread, clock, likes0, nextBoard, events, card, dropdown, notes>>

\* await Board.updateOne(..., {$inc: {answersCount: 1}, newestAnswer: now})
CreateAnswerIncBoard(p) ==
  /\ req[p].op = "createAnswer" /\ req[p].pc = "incBoard"
  /\ boards' = BoardOnAnswerCreated(boards, req[p].snap.boardId, req[p].now)
  /\ req' = [req EXCEPT ![p].pc = "incThread"]
  /\ UNCHANGED <<threads, answers, nextThread, nextAnswer, clock, likes0, nextBoard, events, card, dropdown, notes>>

\* await Thread.updateOne(..., {$inc: {answersCount: 1}, newestAnswer: now}); res.json
CreateAnswerIncThread(p) ==
  /\ req[p].op = "createAnswer" /\ req[p].pc = "incThread"
  /\ threads' = ThreadOnAnswerCreated(threads, req[p].id, req[p].now)
  /\ req' = [req EXCEPT ![p].pc = "done", ![p].status = 200]
  /\ UNCHANGED <<boards, answers, nextThread, nextAnswer, clock, likes0, nextBoard, events, card, dropdown, notes>>

\* ---------------------------------------------------------- deleteAnswer

\* role and argument checks, then await Answer.findById(answerId);
\* answer.delete() on null throws inside the try block.
DeleteAnswerFind(p) ==
  /\ CanStart(p)
  /\ \E role \in Roles, a \in {NoId} \cup AnswerIds :
       req' = Started(p,
                IF ~IsAdmin(role)
                  THEN [Rejected("deleteAnswer", 401) EXCEPT !.role = role, !.id = a]
                ELSE IF a = NoId
                  THEN [Rejected("deleteAnswer", 400) EXCEPT !.role = role]
                ELSE IF ~answers[a].exists
                  THEN [Rejected("deleteAnswer", 500) EXCEPT !.role = role, !.id = a]
                ELSE [IdleReq EXCEPT !.op = "deleteAnswer", !.pc = "delete", !.role = role,
                                     !.id = a, !.snap = answers[a]])
  /\ Unchanged_store
  /\ UNCHANGED <<clock, likes0, nextBoard, events, card, dropdown, notes>>

\* await answer.delete()
DeleteAnswerDelete(p) ==
  /\ req[p].op = "deleteAnswer" /\ req[p].pc = "delete"
  /\ answers' = [answers EXCEPT ![req[p].id] = Null]
  /\ req' = [req EXCEPT ![p].pc = "dec"]
  /\ UNCHANGED <<boards, threads, nextThread, nextAnswer, clock, likes0, nextBoard, events, card, dropdown, notes>>

\* await Thread.updateOne(..., {$inc: {answersCount: -1}}); res.json
DeleteAnswerDec(p) ==
  /\ req[p].op = "deleteAnswer" /\ req[p].pc = "dec"
  /\ threads' = ThreadOnAnswerDeleted(threads, req[p].snap.threadId)
  /\ req' = [req EXCEPT ![p].pc = "done", ![p].status = 200]
  /\ UNCHANGED <<boards, answers, nextThread, nextAnswer, clock, likes0, nextBoard, events, card, dropdown, notes>>

\* ------------------------------------------------ likeThread, likeAnswer

\* The if/else without its unlike branch.
Toggled_PushOnly(likes, u) == Append(likes, u)

\* The unlike branch with the filter's test inverted (=== for !==).
Toggled_KeepCaller(likes, u) ==
  IF u \in Range(likes)
    THEN SelectSeq(likes, LAMBDA x : x = u)
    ELSE Append(likes, u)

\* The `likes` array after the handler's if/else: filter drops every entry
\* equal to the caller, push appends the caller.
Toggled(likes, u) ==
  IF u \in Range(likes)
    THEN SelectSeq(likes, LAMBDA x : x # u)
    ELSE Append(likes, u)

\* Whether `await doc.save()` finds its document: the filter branch assigned
\* the array, which is saved as $set guarded by the version read; the push
\* branch is saved as $push, which asks only for the document to exist.
SaveMatches(doc, snap, u) ==
  /\ doc.exists
  /\ u \in Range(snap.likes) => doc.v = snap.v

\* save() writing back the whole array of the copy read, whatever is stored.
SaveLikes_Overwrite(doc, snap, u) ==
  [doc EXCEPT !.likes = Toggled(snap.likes, u), !.v = @ + 1]

\* The stored document after `await doc.save()` on the copy `snap` read by
\* findById, when it matches.
SaveLikes(doc, snap, u) ==
  IF u \in Range(snap.likes)
    THEN [doc EXCEPT !.likes = Toggled(snap.likes, u), !.v = @ + 1]
    ELSE [doc EXCEPT !.likes = Append(@, u), !.v = @ + 1]

\* populate({path: 'likes', select: '_id name displayName picture'})
Populate(likes) == [i \in DOMAIN likes |-> [_id |-> likes[i], name |-> likes[i]]]

\* The likes an immediately preceding toggle of the same caller on the same
\* document started from, if the request entering slot p follows one.
PrevLikes(p, op, id, u) ==
  IF p > 1 /\ Quiescent
    THEN IF /\ req[p - 1].op = op /\ req[p - 1].pc = "done" /\ req[p - 1].alone
            /\ req[p - 1].id = id /\ req[p - 1].user = u
           THEN <<req[p - 1].snap.likes>>
           ELSE <<>>
    ELSE <<>>

\* argument check, await findById(id), the if/else on the copy read;
\* doc.likes on null throws inside the try block.
LikeFind(p, op, docs, ids) ==
  /\ CanStart(p)
  /\ \E u \in Users, id \in {NoId} \cup ids :
       req' = Started(p,
                IF id = NoId THEN Rejected(op, 400)
                ELSE IF ~docs[id].exists THEN Rejected(op, 500)
                ELSE [IdleReq EXCEPT !.op = op, !.pc = "likeSave", !.user = u,
                                     !.id = id, !.snap = docs[id],
                                     !.prev = PrevLikes(p, op, id, u)])
  /\ Unchanged_store
  /\ UNCHANGED <<clock, likes0, nextBoard, events, card, dropdown, notes>>

\* await doc.save(): the stored collection and the request afterwards.
LikeSaveDocs(p, docs) ==
  IF SaveMatches(docs[req[p].id], req[p].snap, req[p].user)
    THEN [docs EXCEPT ![req[p].id] = SaveLikes(@, req[p].snap, req[p].user)]
    ELSE docs

LikeSaveReq(p, docs) ==
  IF SaveMatches(docs[req[p].id], req[p].snap, req[p].user)
    THEN [req EXCEPT ![p].pc = "likeRefetch"]
    ELSE [req EXCEPT ![p].pc = "failed", ![p].status = 500]

\* await findById(id).populate(populate); res.json
LikeRefetchReq(p, docs) ==
  [req EXCEPT ![p].pc = "done", ![p].status = 200,
              ![p].out = IF docs[req[p].id].exists
                           THEN <<Populate(docs[req[p].id].likes)>>
                           ELSE <<>>]

LikeThreadFind(p) == LikeFind(p, "likeThread", threads, ThreadIds)

LikeThreadSave(p) ==
  /\ req[p].op = "likeThread" /\ req[p].pc = "likeSave"
  /\ threads' = LikeSaveDocs(p, threads)
  /\ req' = LikeSaveReq(p, threads)
  /\ UNCHANGED <<boards, answers, nextThread, nextAnswer, clock, likes0, nextBoard, events, card, dropdown, notes>>

LikeThreadRefetch(p) ==
  /\ req[p].op = "likeThread" /\ req[p].pc = "likeRefetch"
  /\ req' = LikeRefetchReq(p, threads)
  /\ Unchanged_store
  /\ UNCHANGED <<clock, likes0, nextBoard, events, card, dropdown, notes>>

LikeAnswerFind(p) == LikeFind(p, "likeAnswer", answers, AnswerIds)

LikeAnswerSave(p) ==
  /\ req[p].op = "likeAnswer" /\ req[p].pc = "likeSave"
  /\ answers' = LikeSaveDocs(p, answers)
  /\ req' = LikeSaveReq(p, answers)
  /\ UNCHANGED <<boards, threads, nextThread, nextAnswer, clock, likes0, nextBoard, events, card, dropdown, notes>>

LikeAnswerRefetch(p) ==
  /\ req[p].op = "likeAnswer" /\ req[p].pc = "likeRefetch"
  /\ req' = LikeRefetchReq(p, answers)
  /\ Unchanged_store
  /\ UNCHANGED <<clock, likes0, nextBoard, events, card, dropdown, notes>>

\* ------------------------------- editThread, adminEditThread, editAnswer

\* The optional flags of a request body: omitted (undefined), true or false.
Flags == {<<>>, <<TRUE>>, <<FALSE>>}

\* The title and body of an edit request: one of them blank, or both longer
\* than their caps.
EditTexts ==
  {<<Text(1, TRUE), Text(2, FALSE)>>, <<Text(2, FALSE), Text(1, TRUE)>>,
   <<LongText, LongText>>}

\* new Date() of an edit: later than every time taken before (up to the
\* last value of the clock).
EditTime == Min(clock + 1, MaxClock)

\* An author check that lets every caller through.
IsAuthor_Anyone(u, doc) == TRUE

\* req.payload.id !== doc.author.toString() is false
IsAuthor(u, doc) == u = doc.author

\* flag === undefined ? doc.flag : flag
FlagOr(flag, stored) == IF flag = <<>> THEN stored ELSE flag[1]

\* The marker set on every edit, flag or no flag.
EditedByAuthor_Always(closed, now) == now

\* closed === undefined ? {createdAt: now} : null
EditedByAuthor(closed, now) == IF closed = <<>> THEN now ELSE NoTime

\* The marker dropped only when both flags are given.
EditedByAdmin_Either(pined, closed, now) ==
  IF pined = <<>> \/ closed = <<>> THEN now ELSE NoTime

\* pined === undefined && closed === undefined ? {createdAt: now} : null
EditedByAdmin(pined, closed, now) ==
  IF pined = <<>> /\ closed = <<>> THEN now ELSE NoTime

\* An update by the author that also unpins the Thread.
ThreadOnEdit_Unpin(ts, t, title, body, closed, edited) ==
  IF t \in DOMAIN ts /\ ts[t].exists
    THEN [ts EXCEPT ![t].title = title, ![t].body = body, ![t].pined = FALSE,
                    ![t].closed = closed, ![t].edited = edited]
    ELSE ts

\* Thread.updateOne({_id}, {title, body, closed, edited}) of editThread
ThreadOnEdit(ts, t, title, body, closed, edited) ==
  IF t \in DOMAIN ts /\ ts[t].exists
    THEN [ts EXCEPT ![t].title = title, ![t].body = body,
                    ![t].closed = closed, ![t].edited = edited]
    ELSE ts

\* Thread.updateOne({_id}, {title, body, pined, closed, edited}) of
\* adminEditThread
ThreadOnAdminEdit(ts, t, title, body, pined, closed, edited) ==
  IF t \in DOMAIN ts /\ ts[t].exists
    THEN [ts EXCEPT ![t].title = title, ![t].body = body, ![t].pined = pined,
                    ![t].closed = closed, ![t].edited = edited]
    ELSE ts

\* Answer.updateOne({_id}, {body, edited}) of editAnswer
AnswerOnEdit(as, a, body, edited) ==
  IF a \in DOMAIN as /\ as[a].exists
    THEN [as EXCEPT ![a].body = body, ![a].edited = edited]
    ELSE as

\* A refused edit request, with the caller, the id and whether a text was
\* blank.
EditRejected(op, code, u, id, blank) ==
  [Rejected(op, code) EXCEPT !.user = u, !.id = id, !.blank = blank]

\* editThread: the checks on title and body, await Thread.findById(threadId),
\* then the author check; thread.author on null throws inside the try block.
EditThreadFind(p) ==
  /\ CanStart(p)
  /\ \E u \in Users, t \in IdsUpTo(ThreadIds, nextThread), texts \in EditTexts,
        closed \in Flags :
       req' = Started(p,
                IF texts[1].blank \/ texts[2].blank
                  THEN EditRejected("editThread", 400, u, t, TRUE)
                ELSE IF ~threads[t].exists
                  THEN EditRejected("editThread", 500, u, t, FALSE)
                ELSE IF ~IsAuthor(u, threads[t])
                  THEN EditRejected("editThread", 401, u, t, FALSE)
                ELSE [IdleReq EXCEPT !.op = "editThread", !.pc = "update",
                                     !.user = u, !.id = t,
                                     !.title = texts[1].len, !.body = texts[2].len,
                                     !.closed = closed, !.snap = threads[t]])
  /\ Unchanged_store
  /\ UNCHANGED <<clock, likes0, nextBoard, events, card, dropdown, notes>>

\* await Thread.updateOne(...): closed falls back on the thread read by
\* findById, the marker takes new Date().
EditThreadUpdate(p) ==
  /\ req[p].op = "editThread" /\ req[p].pc = "update"
  /\ LET t == EditTime IN
       /\ threads' = ThreadOnEdit(threads, req[p].id,
                       Substring(Text(req[p].title, FALSE), TitleCap),
                       Substring(Text(req[p].body, FALSE), BodyCap),
                       FlagOr(req[p].closed, req[p].snap.closed),
                       EditedByAuthor(req[p].closed, t))
       /\ req' = [req EXCEPT ![p].pc = "refetch", ![p].now = t]
       /\ clock' = t
  /\ UNCHANGED <<boards, answers, nextThread, nextAnswer, likes0, nextBoard, events, card, dropdown, notes>>

\* await Thread.findById(threadId).populate(...); res.json(editedThread)
EditThreadRefetch(p) ==
  /\ req[p].op = "editThread" /\ req[p].pc = "refetch"
  /\ req' = [req EXCEPT ![p].pc = "done", ![p].status = 200, ![p].snap = Null]
  /\ Unchanged_store
  /\ UNCHANGED <<clock, likes0, nextBoard, events, card, dropdown, notes>>

\* adminEditThread: the role check, the checks on title and body, await
\* Thread.findById(threadId); thread.pined or thread.closed on null throws
\* inside the try block when the flag is omitted.
AdminEditThreadFind(p) ==
  /\ CanStart(p)
  /\ \E role \in Roles, t \in IdsUpTo(ThreadIds, nextThread), texts \in EditTexts,
        pined \in Flags, closed \in Flags :
       req' = Started(p,
                IF ~IsAdmin(role)
                  THEN [EditRejected("adminEditThread", 401, 0, t, texts[1].blank \/ texts[2].blank)
                          EXCEPT !.role = role]
                ELSE IF texts[1].blank \/ texts[2].blank
                  THEN [EditRejected("adminEditThread", 400, 0, t, TRUE)
                          EXCEPT !.role = role]
                ELSE IF ~threads[t].exists /\ (pined = <<>> \/ closed = <<>>)
                  THEN [EditRejected("adminEditThread", 500, 0, t, FALSE)
                          EXCEPT !.role = role]
                ELSE [IdleReq EXCEPT !.op = "adminEditThread", !.pc = "update",
                                     !.role = role, !.id = t,
                                     !.title = texts[1].len, !.body = texts[2].len,
                                     !.pined = pined, !.closed = closed,
                                     !.snap = threads[t]])
  /\ Unchanged_store
  /\ UNCHANGED <<clock, likes0, nextBoard, events, card, dropdown, notes>>

\* await Thread.updateOne(...): pined and closed fall back on the thread read
\* by findById, the marker takes new Date().
AdminEditThreadUpdate(p) ==
  /\ req[p].op = "adminEditThread" /\ req[p].pc = "update"
  /\ LET t == EditTime IN
       /\ threads' =
            IF req[p].snap.exists
              THEN ThreadOnAdminEdit(threads, req[p].id,
                     Substring(Text(req[p].title, FALSE), TitleCap),
                     Substring(Text(req[p].body, FALSE), BodyCap),
                     FlagOr(req[p].pined, req[p].snap.pined),
                     FlagOr(req[p].closed, req[p].snap.closed),
                     EditedByAdmin(req[p].pined, req[p].closed, t))
              ELSE ThreadOnAdminEdit(threads, req[p].id,
                     Substring(Text(req[p].title, FALSE), TitleCap),
                     Substring(Text(req[p].body, FALSE), BodyCap),
                     req[p].pined[1], req[p].closed[1],
                     EditedByAdmin(req[p].pined, req[p].closed, t))
       /\ req' = [req EXCEPT ![p].pc = "refetch", ![p].now = t]
       /\ clock' = t
  /\ UNCHANGED <<boards, answers, nextThread, nextAnswer, likes0, nextBoard, events, card, dropdown, notes>>

\* await Thread.findById(threadId).populate(...); res.json(editedThread)
AdminEditThreadRefetch(p) ==
  /\ req[p].op = "adminEditThread" /\ req[p].pc = "refetch"
  /\ req' = [req EXCEPT ![p].pc = "done", ![p].status = 200, ![p].snap = Null]
  /\ Unchanged_store
  /\ UNCHANGED <<clock, likes0, nextBoard, events, card, dropdown, notes>>

\* editAnswer: the check on body, await Answer.findById(answerId), then the
\* author check; answer.author on null throws inside the try block.
EditAnswerFind(p) ==
  /\ CanStart(p)
  /\ \E u \in Users, a \in IdsUpTo(AnswerIds, nextAnswer), texts \in EditTexts :
       req' = Started(p,
                IF texts[2].blank
                  THEN EditRejected("editAnswer", 400, u, a, TRUE)
                ELSE IF ~answers[a].exists
                  THEN EditRejected("editAnswer", 500, u, a, FALSE)
                ELSE IF ~IsAuthor(u, answers[a])
                  THEN EditRejected("editAnswer", 401, u, a, FALSE)
                ELSE [IdleReq EXCEPT !.op = "editAnswer", !.pc = "update",
                                     !.user = u, !.id = a,
                                     !.body = texts[2].len, !.snap = answers[a]])
  /\ Unchanged_store
  /\ UNCHANGED <<clock, likes0, nextBoard, events, card, dropdown, notes>>

\* await Answer.updateOne(...): the marker takes new Date().
EditAnswerUpdate(p) ==
  /\ req[p].op = "editAnswer" /\ req[p].pc = "update"
  /\ LET t == EditTime IN
       /\ answers' = AnswerOnEdit(answers, req[p].id,
                       Substring(Text(req[p].body, FALSE), BodyCap), t)
       /\ req' = [req EXCEPT ![p].pc = "refetch", ![p].now = t]
       /\ clock' = t
  /\ UNCHANGED <<boards, threads, nextThread, nextAnswer, likes0, nextBoard, events, card, dropdown, notes>>

\* await Answer.findById(answerId).populate(...); res.json(editedanswer)
EditAnswerRefetch(p) ==
  /\ req[p].op = "editAnswer" /\ req[p].pc = "refetch"
  /\ req' = [req EXCEPT ![p].pc = "done", ![p].status = 200, ![p].snap = Null]
  /\ Unchanged_store
  /\ UNCHANGED <<clock, likes0, nextBoard, events, card, dropdown, notes>>

\* ------------------------------------------------------------------ Init

\* The store as createBoard at time 0, createThread at time 0 and
\* createAnswer at time 1 leave it: one board holding one thread holding one
\* answer.
Board1 ==
  [exists |-> TRUE, name |-> 2, title |-> 2, body |-> 2, position |-> 1,
   threadsCount |-> 1, answersCount |-> 1,
   newestThread |-> 0, newestAnswer |-> 1, createdAt |-> 0]

Thread1 ==
  [NewThread(1, 1, Text(2, FALSE), Text(2, FALSE), 0)
     EXCEPT !.answersCount = 1, !.newestAnswer = 1]

Answer1 == NewAnswer(1, 1, 1, Text(2, FALSE), 1)

\* ------------------------------------------------------ the client Card
\* The Card of Thread CardThread as shown to the signed-in user CardUser.
CardUser == 1
CardThread == 1

\* !!likes.find(i => i._id === user.id)
HasUser(likes, u) == \E i \in DOMAIN likes : likes[i]._id = u

\* useState(data.likes), useState(!!data.likes.find(...)); clicks counts the
\* like requests sent, back holds the requests whose promise has settled.
MountedCard(lt) ==
  [likes |-> Populate(lt), liked |-> HasUser(Populate(lt), CardUser),
   clicks |-> 0, back |-> {}]

\* A request of the Card is in flight.
CardInFlight == card.clicks > Cardinality(card.back)

\* onLike of a signed-in user: setLiked(prev => !prev), then the fetch.
CardOnLike ==
  /\ card.clicks < MaxReq
  /\ card' = [card EXCEPT !.liked = ~@, !.clicks = @ + 1]
  /\ Unchanged_store
  /\ UNCHANGED <<nextBoard, clock, events, req, likes0, dropdown, notes>>

\* A PUT /api/thread/like of the Card reaches the server.
CardRequestArrives(p) ==
  /\ Cardinality({q \in Procs : req[q].pc # "idle"}) < card.clicks
  /\ LikeThreadFind(p)
  /\ req'[p].user = CardUser /\ req'[p].id = CardThread

\* .then(data => { if (!data.error) setLikes(data.likes) else throw })
\* .catch(err => toast.error(...)): an error response, or a body of null,
\* changes no state.
CardResponse(p) ==
  /\ req[p].pc \in {"done", "failed"} /\ p \notin card.back
  /\ card' = [card EXCEPT
                !.back = @ \cup {p},
                !.likes = IF req[p].pc = "done" /\ req[p].out # <<>>
                            THEN req[p].out[1] ELSE @]
  /\ Unchanged_store
  /\ UNCHANGED <<nextBoard, clock, events, req, likes0, dropdown, notes>>

\* The fetch promise rejects (the connection fails once the request is out):
\* .catch(err => toast.error(...)).
CardFetchFails(p) ==
  /\ req[p].pc # "idle" /\ p \notin card.back
  /\ card' = [card EXCEPT !.back = @ \cup {p}]
  /\ Unchanged_store
  /\ UNCHANGED <<nextBoard, clock, events, req, likes0, dropdown, notes>>

\* ------------------------------------------- the notifications Dropdown
\* The useState values of a Dropdown that has just been mounted.
DropdownMounted ==
  [notifications |-> <<>>, page |-> 1, nextPage |-> 1, hasNextPage |-> TRUE,
   loading |-> TRUE, moreLoading |-> FALSE, noData |-> FALSE,
   moreTrigger |-> TRUE]

\* The server's notifications of the user (feed of them: notification n is
\* the n-th created, and the list is read newest first), the page requests
\* answered and not yet delivered, the newNotification events on their way,
\* and the pages asked for so far.
NotesIdle == [feed |-> 0, flight |-> {}, socket |-> <<>>, asked |-> <<>>]

\* The answer to GET /api/notifications?limit=10&page=pg computed over the
\* newest-first list of feed notifications: the window, nextPage and
\* hasNextPage of the paging primitive.
PageOf(feed, pg) ==
  LET first == (pg - 1) * Limit + 1
      last == Min(pg * Limit, feed)
      more == pg * Limit < feed
  IN [page |-> pg, error |-> FALSE,
      docs |-> IF first <= last
                 THEN [i \in 1..(last - first + 1) |-> feed - first - i + 2]
                 ELSE <<>>,
      nextPage |-> IF more THEN pg + 1 ELSE NoPage,
      hasNextPage |-> more]

\* A request that throws or is answered with an error body.
PageError(pg) ==
  [page |-> pg, error |-> TRUE, docs |-> <<>>, nextPage |-> NoPage,
   hasNextPage |-> FALSE]

\* fetchNotifications of the effect on [page]: nothing when hasNextPage is
\* false, else setMoreLoading(true) and the request, answered from the list
\* as it is when the request is made, or failing.
FetchSent(d) == [d EXCEPT !.moreLoading = IF d.hasNextPage THEN TRUE ELSE @]
FetchAsked(d, n, resp) ==
  IF d.hasNextPage
    THEN [n EXCEPT !.flight = @ \cup {resp}, !.asked = Append(@, d.page)]
    ELSE n
Answers(d) == {PageOf(notes.feed, d.page), PageError(d.page)}

\* The Dropdown's scroll area is rendered: !noData and !loading.
ScrollShown == ~dropdown.noData /\ ~dropdown.loading

\* The effect on [page] after mount.
DropdownMount ==
  /\ dropdown.loading /\ notes.asked = <<>>
  /\ \E resp \in Answers(dropdown) :
       /\ dropdown' = FetchSent(dropdown)
       /\ notes' = FetchAsked(dropdown, notes, resp)
  /\ Unchanged_store
  /\ UNCHANGED <<nextBoard, clock, events, req, likes0, card>>

\* A handleScroll that re-arms nothing and leaves moreTrigger as it is.
Scrolled_KeepTrigger(d) == [d EXCEPT !.page = d.nextPage]

\* handleScroll past the threshold: setMoreTrigger(false), setPage(nextPage)
Scrolled(d) == [d EXCEPT !.moreTrigger = FALSE, !.page = d.nextPage]

\* handleScroll near the end of the list with moreTrigger set; the effect on
\* [page] runs when page has changed.
HandleScroll ==
  /\ ScrollShown /\ dropdown.moreTrigger
  /\ LET d == Scrolled(dropdown) IN
       IF d.page # dropdown.page
         THEN \E resp \in Answers(d) :
                /\ dropdown' = FetchSent(d)
                /\ notes' = FetchAsked(d, notes, resp)
         ELSE dropdown' = d /\ notes' = notes
  /\ Unchanged_store
  /\ UNCHANGED <<nextBoard, clock, events, req, likes0, card>>

\* An error branch that also drops the notifications loaded so far.
OnFetchError_Clear(d) ==
  [d EXCEPT !.loading = FALSE, !.noData = TRUE, !.moreLoading = FALSE,
            !.notifications = <<>>]

\* catch(err): setLoading(false), setNoData(true), setMoreLoading(false)
OnFetchError(d) ==
  [d EXCEPT !.loading = FALSE, !.noData = TRUE, !.moreLoading = FALSE]

\* if (!response.error): the seven setters of the success branch
OnFetchSuccess(d, resp) ==
  [d EXCEPT !.notifications = @ \o resp.docs, !.nextPage = resp.nextPage,
            !.hasNextPage = resp.hasNextPage, !.loading = FALSE,
            !.moreLoading = FALSE, !.noData = FALSE, !.moreTrigger = TRUE]

\* The awaited fetch of a page request settles.
FetchReturns ==
  /\ \E resp \in notes.flight :
       /\ dropdown' = IF resp.error THEN OnFetchError(dropdown)
                                    ELSE OnFetchSuccess(dropdown, resp)
       /\ notes' = [notes EXCEPT !.flight = @ \ {resp}]
  /\ Unchanged_store
  /\ UNCHANGED <<nextBoard, clock, events, req, likes0, card>>

\* The server stores a new notification for the user and emits
\* newNotification; a Dropdown not yet mounted has no listener.
ServerNotifies ==
  /\ notes.feed < MaxFeed
  /\ notes' = [notes EXCEPT !.feed = @ + 1,
                            !.socket = IF notes.asked = <<>> THEN @
                                       ELSE Append(@, notes.feed + 1)]
  /\ Unchanged_store
  /\ UNCHANGED <<nextBoard, clock, events, req, likes0, card, dropdown>>

\* Socket.on('newNotification', data => setNotifications(prev => [data, ...prev]))
OnNewNotification ==
  /\ notes.socket # <<>>
  /\ dropdown' = [dropdown EXCEPT !.notifications = <<Head(notes.socket)>> \o @]
  /\ notes' = [notes EXCEPT !.socket = Tail(@)]
  /\ Unchanged_store
  /\ UNCHANGED <<nextBoard, clock, events, req, likes0, card>>

\* The likes lt of the thread and la of the answer are those left by like
\* requests of the users in them, one save each.
InitStore(lt, la) ==
  /\ boards = [b \in BoardIds |-> IF b = 1 THEN Board1 ELSE Null]
  /\ threads = [t \in ThreadIds |->
                  IF t = 1 THEN [Thread1 EXCEPT !.likes = lt, !.v = Len(lt)] ELSE Null]
  /\ answers = [a \in AnswerIds |->
                  IF a = 1 THEN [Answer1 EXCEPT !.likes = la, !.v = Len(la)] ELSE Null]
  /\ likes0 = [thread |-> lt, answer |-> la]
  /\ nextBoard = 2
  /\ nextThread = 2
  /\ nextAnswer = 2
  /\ events = <<>>
  /\ card = MountedCard(lt)
  /\ dropdown = DropdownMounted
  /\ notes = NotesIdle
  /\ clock = 1
  /\ req = [p \in Procs |-> IdleReq]

Init == InitStore(<<>>, <<>>)

Next ==
  \E p \in Procs :
    \/ CreateThreadStart(p)
    \/ CreateThreadSave(p)
    \/ CreateThreadInc(p)
    \/ DeleteThreadFind(p)
    \/ DeleteThreadDelete(p)
    \/ DeleteThreadAnswers(p)
    \/ DeleteThreadDec(p)
    \/ CreateAnswerFind(p)
    \/ CreateAnswerSave(p)
    \/ CreateAnswerIncBoard(p)
    \/ CreateAnswerIncThread(p)
    \/ DeleteAnswerFind(p)
    \/ DeleteAnswerDelete(p)
    \/ DeleteAnswerDec(p)
    \/ DeleteBoardFind(p)
    \/ DeleteBoardDelete(p)

Spec == Init /\ [][Next]_vars

\* The steps by which a started request goes on: each follows an await on the
\* store, and the handler resumes once the store has returned.
Resume(p) ==
  \/ CreateThreadSave(p)
  \/ CreateThreadInc(p)
  \/ DeleteThreadDelete(p)
  \/ DeleteThreadAnswers(p)
  \/ DeleteThreadDec(p)
  \/ CreateAnswerSave(p)
  \/ CreateAnswerIncBoard(p)
  \/ CreateAnswerIncThread(p)
  \/ DeleteAnswerDelete(p)
  \/ DeleteAnswerDec(p)
  \/ DeleteBoardDelete(p)

\* Every store operation returns and the event loop runs every handler that
\* can go on; nothing obliges a client to send a request.
FairSpec == Spec /\ \A p \in Procs : WF_vars(Resume(p))

\* ------------------------------------------------ the like-toggle engine

\* The likes a document can hold when the requests begin.
InitLikes == {<<>>, <<1>>, <<1, 2>>}

\* The same store, each document liked by nobody, by user 1 or by users 1
\* and 2; only like requests follow.
LikeInit == \E lt \in InitLikes, la \in InitLikes : InitStore(lt, la)

LikeNext ==
  \E p \in Procs :
    \/ LikeThreadFind(p)
    \/ LikeThreadSave(p)
    \/ LikeThreadRefetch(p)
    \/ LikeAnswerFind(p)
    \/ LikeAnswerSave(p)
    \/ LikeAnswerRefetch(p)

LikeSpec == LikeInit /\ [][LikeNext]_vars

\* ------------------------------------------------------------ the edits

\* Only edit requests follow, on the store of Init.
EditNext ==
  \E p \in Procs :
    \/ EditThreadFind(p)
    \/ EditThreadUpdate(p)
    \/ EditThreadRefetch(p)
    \/ AdminEditThreadFind(p)
    \/ AdminEditThreadUpdate(p)
    \/ AdminEditThreadRefetch(p)
    \/ EditAnswerFind(p)
    \/ EditAnswerUpdate(p)
    \/ EditAnswerRefetch(p)

EditSpec == Init /\ [][EditNext]_vars

\* ------------------------------------------------------------ the boards

\* Only createBoard, editBoard and deleteBoard requests follow, on the store
\* of Init.
BoardNext ==
  \E p \in Procs :
    \/ CreateBoardStart(p)
    \/ CreateBoardSave(p)
    \/ EditBoardUpdate(p)
    \/ EditBoardRefetch(p)
    \/ DeleteBoardFind(p)
    \/ DeleteBoardDelete(p)

BoardSpec == Init /\ [][BoardNext]_vars

\* All twelve mutating operations in one specification. The requests run
\* one after the other, a request starting only when every earlier one has
\* ended, and the requests of one behaviour belong to one family of handlers.
StructureOps ==
  {"createThread", "deleteThread", "createAnswer", "deleteAnswer", "deleteBoard"}
LikeFamily == {"likeThread", "likeAnswer"}
EditFamily == {"editThread", "adminEditThread", "editAnswer"}
BoardFamily == {"createBoard", "editBoard", "deleteBoard"}

AllNext ==
  \E p \in Procs :
    \/ /\ Quiescent
       /\ \/ /\ OnlyOps(BoardFamily)
             /\ CreateBoardStart(p) \/ EditBoardUpdate(p) \/ DeleteBoardFind(p)
          \/ /\ OnlyOps(StructureOps)
             /\ \/ CreateThreadStart(p)
                \/ DeleteThreadFind(p)
                \/ CreateAnswerFind(p)
                \/ DeleteAnswerFind(p)
                \/ DeleteBoardFind(p)
          \/ /\ OnlyOps(EditFamily)
             /\ EditThreadFind(p) \/ AdminEditThreadFind(p) \/ EditAnswerFind(p)
          \/ /\ OnlyOps(LikeFamily)
             /\ LikeThreadFind(p) \/ LikeAnswerFind(p)
    \/ CreateBoardSave(p)
    \/ EditBoardRefetch(p)
    \/ DeleteBoardDelete(p)
    \/ CreateThreadSave(p)
    \/ CreateThreadInc(p)
    \/ EditThreadUpdate(p)
    \/ EditThreadRefetch(p)
    \/ AdminEditThreadUpdate(p)
    \/ AdminEditThreadRefetch(p)
    \/ DeleteThreadDelete(p)
    \/ DeleteThreadAnswers(p)
    \/ DeleteThreadDec(p)
    \/ LikeThreadSave(p)
    \/ LikeThreadRefetch(p)
    \/ CreateAnswerSave(p)
    \/ CreateAnswerIncBoard(p)
    \/ CreateAnswerIncThread(p)
    \/ EditAnswerUpdate(p)
    \/ EditAnswerRefetch(p)
    \/ DeleteAnswerDelete(p)
    \/ DeleteAnswerDec(p)
    \/ LikeAnswerSave(p)
    \/ LikeAnswerRefetch(p)

AllSpec == Init /\ [][AllNext]_vars

\* Creations and like-toggles one after the other: a request starts only
\* when every earlier one has ended, and the Board, Thread or Answer it names
\* is stored.
SeqNext ==
  \E p \in Procs :
    \/ /\ Quiescent
       /\ \/ CreateBoardStart(p)
          \/ CreateThreadStart(p) /\ (req'[p].pc = "save" => boards[req'[p].id].exists)
          \/ CreateAnswerFind(p) /\ req'[p].pc # "hung"
          \/ LikeThreadFind(p) /\ req'[p].status # 500
          \/ LikeAnswerFind(p) /\ req'[p].status # 500
    \/ CreateBoardSave(p)
    \/ CreateThreadSave(p)
    \/ CreateThreadInc(p)
    \/ CreateAnswerSave(p)
    \/ CreateAnswerIncBoard(p)
    \/ CreateAnswerIncThread(p)
    \/ LikeThreadSave(p)
    \/ LikeThreadRefetch(p)
    \/ LikeAnswerSave(p)
    \/ LikeAnswerRefetch(p)

SeqSpec == Init /\ [][SeqNext]_vars

\* Answering while moderators edit: adminEditThread and createAnswer
\* requests, overlapping freely.
ModerationNext ==
  \E p \in Procs :
    \/ AdminEditThreadFind(p)
    \/ AdminEditThreadUpdate(p)
    \/ AdminEditThreadRefetch(p)
    \/ CreateAnswerFind(p)
    \/ CreateAnswerSave(p)
    \/ CreateAnswerIncBoard(p)
    \/ CreateAnswerIncThread(p)

ModerationSpec == Init /\ [][ModerationNext]_vars

\* The Card and the server's likeThread handler behind it.
CardNext ==
  \/ CardOnLike
  \/ \E p \in Procs :
       \/ CardRequestArrives(p)
       \/ LikeThreadSave(p)
       \/ LikeThreadRefetch(p)
       \/ CardResponse(p)
       \/ CardFetchFails(p)

CardSpec == LikeInit /\ [][CardNext]_vars

\* The notifications Dropdown, its page requests and the server's events.
DropdownNext ==
  \/ DropdownMount
  \/ HandleScroll
  \/ FetchReturns
  \/ ServerNotifies
  \/ OnNewNotification

DropdownSpec == Init /\ [][DropdownNext]_vars

\* ------------------------------------------------------------ properties


ThreadsOfBoard(b) == {t \in ThreadIds : threads[t].exists /\ threads[t].boardId = b}
AnswersOfBoard(b) == {a \in AnswerIds : answers[a].exists /\ answers[a].boardId = b}
AnswersOfThread(t) == {a \in AnswerIds : answers[a].exists /\ answers[a].threadId = t}

\* The requests of kind op that got as far as reading document id.
RequestsOn(op, id) == {p \in Procs : req[p].op = op /\ req[p].id = id}

Succeeded(p) == req[p].pc = "done" /\ req[p].status = 200

\* C1: in every quiescent state reached by createAnswer and deleteAnswer
\* requests alone, however interleaved, every existing Thread's answersCount
\* equals the number of stored Answers whose threadId is that Thread.
C1_ThreadAnswersCount ==
  (Quiescent /\ OnlyOps({"createAnswer", "deleteAnswer"})) =>
    \A t \in ThreadIds :
      threads[t].exists => threads[t].answersCount = Cardinality(AnswersOfThread(t))

\* C2: in every quiescent state reached by createAnswer, deleteAnswer and
\* deleteThread requests, every existing Board's answersCount equals the
\* number of stored Answers whose boardId is that Board.
C2_BoardAnswersCount ==
  (Quiescent /\ OnlyOps({"createAnswer", "deleteAnswer", "deleteThread"})) =>
    \A b \in BoardIds :
      boards[b].exists => boards[b].answersCount = Cardinality(AnswersOfBoard(b))

\* C3: in every quiescent state reached by createThread and deleteThread
\* requests alone, however interleaved, every existing Board's threadsCount
\* equals the number of stored Threads whose boardId is that Board.
C3_BoardThreadsCount ==
  (Quiescent /\ OnlyOps({"createThread", "deleteThread"})) =>
    \A b \in BoardIds :
      boards[b].exists => boards[b].threadsCount = Cardinality(ThreadsOfBoard(b))

NoDuplicates(s) == \A i, j \in DOMAIN s : s[i] = s[j] => i = j

\* C4: in every reachable state no user id occurs more than once in the
\* likes of any Thread or Answer.
C4_LikesUnique ==
  /\ \A t \in ThreadIds : threads[t].exists => NoDuplicates(threads[t].likes)
  /\ \A a \in AnswerIds : answers[a].exists => NoDuplicates(answers[a].likes)

\* The document the like requests of kind op act on, and its likes when the
\* requests began.
LikedDoc(op) == IF op = "likeThread" THEN threads[1] ELSE answers[1]
LikedDoc0(op) == IF op = "likeThread" THEN likes0.thread ELSE likes0.answer
LikeOps == {"likeThread", "likeAnswer"}
Callers(ps) == {req[p].user : p \in ps}

\* C5: when the likes of a document are empty at first and the toggles on it
\* come from pairwise distinct users, one each, overlapping in any way, then
\* once all have ended every one has succeeded and the likes hold exactly
\* those users, each once.
C5_DistinctUsersAllLand ==
  \A op \in LikeOps :
    LET R == RequestsOn(op, 1) IN
      (/\ Quiescent
       /\ LikedDoc0(op) = <<>>
       /\ Cardinality(Callers(R)) = Cardinality(R)) =>
         /\ \A p \in R : Succeeded(p)
         /\ Range(LikedDoc(op).likes) = Callers(R)
         /\ Len(LikedDoc(op).likes) = Cardinality(R)

\* Two requests of distinct users on the thread, empty at first, overlapped
\* and both succeeded.
C5_Witness ==
  /\ Quiescent
  /\ likes0.thread = <<>>
  /\ \E p, q \in RequestsOn("likeThread", 1) :
       /\ req[p].user # req[q].user
       /\ ~req[p].alone /\ ~req[q].alone
       /\ Succeeded(p) /\ Succeeded(q)
       /\ RequestsOn("likeThread", 1) = {p, q}

\* C6: when exactly two toggles act on a document, both by the same user and
\* overlapping, and both have succeeded, the user's membership is what two
\* toggles in a row leave: the membership before both.
C6_SameUserSerializable ==
  \A op \in LikeOps :
    LET R == RequestsOn(op, 1) IN
      (/\ Quiescent
       /\ Cardinality(R) = 2 /\ Cardinality(Callers(R)) = 1
       /\ \A p \in R : Succeeded(p) /\ ~req[p].alone) =>
         \A u \in Callers(R) :
           u \in Range(LikedDoc(op).likes) <=> u \in Range(LikedDoc0(op))

\* The documents of the collection a like request of kind op acts on, in a
\* store s.
DocsOf(op, s) == IF op = "likeThread" THEN s.threads ELSE s.answers
OtherDocsOf(op, s) == IF op = "likeThread" THEN s.answers ELSE s.threads

\* A toggle that ran with no other request in progress, and after which no
\* request has started.
SoloToggle(p) ==
  /\ req[p].op \in LikeOps
  /\ Succeeded(p) /\ req[p].alone /\ Last(p)
  /\ req[p].pre # <<>>

\* C7: a toggle by u run without overlapping requests removes u from the
\* likes if u was a member and adds u otherwise, changes no other user's
\* membership, no Board, no other document and no other field of the
\* document than likes (and its version), and returns the likes stored
\* after the toggle.
C7_SoloToggleEffect ==
  \A p \in Procs :
    SoloToggle(p) =>
      LET before == req[p].pre[1]
          id == req[p].id
          u == req[p].user
          old == DocsOf(req[p].op, before)[id]
          new == DocsOf(req[p].op, Store)[id]
      IN /\ u \in Range(old.likes) <=> u \notin Range(new.likes)
         /\ \A w \in Users \ {u} : w \in Range(old.likes) <=> w \in Range(new.likes)
         /\ [new EXCEPT !.likes = old.likes, !.v = old.v] = old
         /\ \A d \in DOMAIN DocsOf(req[p].op, Store) \ {id} :
              DocsOf(req[p].op, Store)[d] = DocsOf(req[p].op, before)[d]
         /\ OtherDocsOf(req[p].op, Store) = OtherDocsOf(req[p].op, before)
         /\ boards = before.boards
         /\ req[p].out = <<Populate(new.likes)>>

\* A solo toggle by a user who was no member, on a document another user
\* likes.
C7_Witness ==
  \E p \in Procs :
    /\ SoloToggle(p)
    /\ LET old == DocsOf(req[p].op, req[p].pre[1])[req[p].id]
       IN old.likes # <<>> /\ req[p].user \notin Range(old.likes)

\* C8: two toggles by the same user on the same document in immediate
\* succession, with nothing in between or alongside, leave the set of likes
\* as it was before the first.
C8_TwiceRestores ==
  \A p \in Procs :
    (SoloToggle(p) /\ req[p].prev # <<>>) =>
      Range(DocsOf(req[p].op, Store)[req[p].id].likes) = Range(req[p].prev[1])

\* The second of two successive toggles has ended, the user being a member
\* (with another user) before the first.
C8_Witness ==
  \E p \in Procs :
    /\ SoloToggle(p) /\ req[p].prev # <<>>
    /\ req[p].user \in Range(req[p].prev[1])
    /\ Len(req[p].prev[1]) > 1

\* The counters as the requests found them.
Threads0Count(b) == IF b = 1 THEN Board1.threadsCount ELSE 0
Answers0Count(b) == IF b = 1 THEN Board1.answersCount ELSE 0
ThreadAnswers0Count(t) == IF t = 1 THEN Thread1.answersCount ELSE 0

\* C9: creations overlapping in any way lose no counter update: once all
\* have ended, Board.threadsCount is higher by the number of createThread
\* requests that succeeded on the Board, and Thread.answersCount and
\* Board.answersCount by the number of createAnswer requests that succeeded
\* under them.
C9_NoLostIncrement ==
  (Quiescent /\ OnlyOps({"createThread", "createAnswer"})) =>
    /\ \A b \in BoardIds :
         boards[b].exists =>
           /\ boards[b].threadsCount = Threads0Count(b) +
                Cardinality({p \in RequestsOn("createThread", b) : Succeeded(p)})
           /\ boards[b].answersCount = Answers0Count(b) +
                Cardinality({p \in Procs : /\ req[p].op = "createAnswer"
                                           /\ Succeeded(p)
                                           /\ req[p].snap.boardId = b})
    /\ \A t \in ThreadIds :
         threads[t].exists =>
           threads[t].answersCount = ThreadAnswers0Count(t) +
             Cardinality({p \in RequestsOn("createAnswer", t) : Succeeded(p)})

\* Two createThread requests on board 1 overlapped and both succeeded.
C9_Witness ==
  /\ Quiescent /\ OnlyOps({"createThread", "createAnswer"})
  /\ \E p, q \in RequestsOn("createThread", 1) :
       /\ p # q
       /\ Succeeded(p) /\ Succeeded(q)
       /\ ~req[p].alone /\ ~req[q].alone

\* C10: in every reachable state Board.threadsCount, Board.answersCount and
\* Thread.answersCount are all >= 0.
C10_CountersNonNegative ==
  /\ \A b \in BoardIds :
       boards[b].exists => boards[b].threadsCount >= 0 /\ boards[b].answersCount >= 0
  /\ \A t \in ThreadIds : threads[t].exists => threads[t].answersCount >= 0

\* The documents the requests found in the store that are no longer there.
AnswersGone(t) == {a \in AnswerIds : a = 1 /\ Answer1.threadId = t /\ ~answers[a].exists}
ThreadsGone(b) == {t \in ThreadIds : t = 1 /\ Thread1.boardId = b /\ ~threads[t].exists}

\* C11: deletions apply their counter delta once per deleted entity: once
\* deleteAnswer and deleteThread requests, however many name the same entity
\* and however they overlap, have all ended, an existing Thread's answersCount
\* is lower by the number of its Answers that were deleted, and an existing
\* Board's threadsCount by the number of its Threads that were deleted.
C11_DeltaOncePerEntity ==
  (Quiescent /\ OnlyOps({"deleteAnswer", "deleteThread"})) =>
    /\ \A t \in ThreadIds :
         threads[t].exists =>
           threads[t].answersCount =
             ThreadAnswers0Count(t) - Cardinality(AnswersGone(t))
    /\ \A b \in BoardIds :
         boards[b].exists =>
           boards[b].threadsCount = Threads0Count(b) - Cardinality(ThreadsGone(b))

\* C12: once a deleteThread of t has completed and no request is in
\* progress, no stored Answer has threadId t, whatever createAnswer requests
\* on t overlapped it.
C12_NoAnswerOfDeletedThread ==
  (Quiescent /\ OnlyOps({"deleteThread", "createAnswer"})) =>
    \A t \in ThreadIds :
      (\E p \in RequestsOn("deleteThread", t) : Succeeded(p)) =>
        AnswersOfThread(t) = {}

\* Every request so far ran with no other request in progress.
Sequential == \A p \in Procs : req[p].pc # "idle" => req[p].alone

Max(S) == CHOOSE x \in S : \A y \in S : y <= x

\* C13: after any sequence of createThread and deleteThread requests, one
\* after the other, every existing Board with at least one stored Thread has
\* newestThread equal to the greatest createdAt of its stored Threads.
C13_NewestThreadIsMax ==
  (Quiescent /\ Sequential /\ OnlyOps({"createThread", "deleteThread"})) =>
    \A b \in BoardIds :
      (boards[b].exists /\ ThreadsOfBoard(b) # {}) =>
        boards[b].newestThread =
          Max({threads[t].createdAt : t \in ThreadsOfBoard(b)})

\* C14: after any sequence of createAnswer, deleteAnswer and deleteThread
\* requests, one after the other, every existing Thread with at least one
\* stored Answer has newestAnswer equal to the greatest createdAt of its
\* Answers, and every existing Board with at least one stored Answer has
\* newestAnswer equal to the greatest createdAt of the Answers with its
\* boardId.
C14_NewestAnswerIsMax ==
  (/\ Quiescent /\ Sequential
   /\ OnlyOps({"createAnswer", "deleteAnswer", "deleteThread"})) =>
    /\ \A t \in ThreadIds :
         (threads[t].exists /\ AnswersOfThread(t) # {}) =>
           threads[t].newestAnswer =
             Max({answers[a].createdAt : a \in AnswersOfThread(t)})
    /\ \A b \in BoardIds :
         (boards[b].exists /\ AnswersOfBoard(b) # {}) =>
           boards[b].newestAnswer =
             Max({answers[a].createdAt : a \in AnswersOfBoard(b)})

DeleteOps == {"deleteBoard", "deleteThread", "deleteAnswer"}

\* No request so far came from a caller holding the admin role.
NoAdminCaller == \A p \in Procs : req[p].role # "admin"

\* C15: a deleteBoard, deleteThread or deleteAnswer request of a caller
\* whose role is not admin fails with Unauthorized (401) at once and, when
\* nothing else ran beside it, leaves the store as it found it: nothing
\* removed, no counter lowered.  Hence as long as no request carries the
\* admin role every Board, Thread and Answer ever stored is still stored,
\* and the counters of the initial documents are not below their initial
\* values.
C15_DeleteNeedsAdmin ==
  /\ \A p \in Procs :
       (req[p].op \in DeleteOps /\ req[p].role # "admin") =>
         /\ req[p].pc = "failed" /\ req[p].status = 401
         /\ (Last(p) /\ req[p].pre # <<>>) => Store = req[p].pre[1]
  /\ NoAdminCaller =>
       /\ \A b \in BoardIds : b < nextBoard => boards[b].exists
       /\ \A t \in ThreadIds : t < nextThread => threads[t].exists
       /\ \A a \in AnswerIds : a < nextAnswer => answers[a].exists
       /\ boards[1].threadsCount >= Board1.threadsCount
       /\ boards[1].answersCount >= Board1.answersCount
       /\ threads[1].answersCount >= Thread1.answersCount

\* A deleteThread naming the stored Thread 1, by a caller without the admin
\* role, was refused after a createAnswer had succeeded; no admin has called.
C15_Witness ==
  /\ NoAdminCaller
  /\ \E p, q \in Procs :
       /\ req[p].op = "deleteThread" /\ req[p].role = "user" /\ req[p].id = 1
       /\ req[p].status = 401 /\ Last(p) /\ req[p].pre # <<>>
       /\ req[q].op = "createAnswer" /\ Succeeded(q)

\* The document an editThread or editAnswer request names.
AuthorEditOps == {"editThread", "editAnswer"}
TargetOf(p) == IF req[p].op = "editThread" THEN threads[req[p].id] ELSE answers[req[p].id]

\* An editThread or editAnswer request on a stored document by a caller who
\* is not its author.
NonAuthorEdit(p) ==
  /\ req[p].op \in AuthorEditOps
  /\ TargetOf(p).exists
  /\ req[p].user # TargetOf(p).author

\* The request in slot p, started with nothing in progress and followed by
\* none, has left the store as it found it.
StoreAsFound(p) == (Last(p) /\ req[p].pre # <<>>) => Store = req[p].pre[1]

\* C16 as stated: an editThread or editAnswer request by a caller who is not
\* the author ends with Unauthorized (401) and leaves the store unchanged.
C16_NonAuthorUnauthorized ==
  \A p \in Procs :
    NonAuthorEdit(p) =>
      /\ req[p].pc = "failed" /\ req[p].status = 401
      /\ StoreAsFound(p)

\* C16, amended: an editThread or editAnswer request by a caller who is not
\* the author fails and leaves the store unchanged: with BadRequest (400)
\* when the title or the body is empty after trimming, with Unauthorized
\* (401) otherwise.
C16_NonAuthorRefused ==
  \A p \in Procs :
    NonAuthorEdit(p) =>
      /\ req[p].pc = "failed"
      /\ req[p].status = IF req[p].blank THEN 400 ELSE 401
      /\ StoreAsFound(p)

\* An editThread by a caller who is not the author, with title and body
\* given, was refused on a Thread that an earlier request had edited.
C16_Witness ==
  \E p \in Procs :
    /\ NonAuthorEdit(p) /\ req[p].op = "editThread"
    /\ ~req[p].blank /\ req[p].status = 401
    /\ Last(p) /\ req[p].pre # <<>>
    /\ threads[req[p].id].edited # NoTime

\* The events of a kind emitted for the document id.
EventsFor(kind, id) ==
  {i \in DOMAIN events : events[i] = [kind |-> kind, id |-> id]}

\* C17: every createThread that has succeeded has emitted exactly one
\* newThread event for the Thread it stored, every createAnswer that has
\* succeeded exactly one newAnswer event for its Answer, and no event is
\* there for a creation that did not succeed.
C17_OneEventPerCreation ==
  /\ \A p \in Procs :
       /\ (req[p].op = "createThread" /\ Succeeded(p)) =>
            Cardinality(EventsFor("newThread", req[p].newId)) = 1
       /\ (req[p].op = "createAnswer" /\ Succeeded(p)) =>
            Cardinality(EventsFor("newAnswer", req[p].newId)) = 1
  /\ Len(events) =
       Cardinality({p \in Procs : /\ req[p].op \in {"createThread", "createAnswer"}
                                  /\ Succeeded(p)})

\* A request of kind op that succeeded with nothing else in progress, and
\* after which no request has started.
SoloDone(p, op) ==
  /\ req[p].op = op
  /\ Succeeded(p) /\ req[p].alone /\ Last(p)
  /\ req[p].pre # <<>>

\* C18: an editThread by the author that succeeded with no other request
\* beside it has stored the submitted title cut to 100 and the submitted
\* body cut to 1000; with closed omitted edited is the time of this edit and
\* closed is as before, with closed given closed is the given value and
\* edited is null, whatever marker the Thread had.
C18_AuthorEditStores ==
  \A p \in Procs :
    SoloDone(p, "editThread") =>
      LET old == req[p].pre[1].threads[req[p].id]
          new == threads[req[p].id]
      IN /\ req[p].user = old.author
         /\ new.title = Min(req[p].title, TitleCap)
         /\ new.body = Min(req[p].body, BodyCap)
         /\ (req[p].closed = <<>>) <=> (new.edited # NoTime)
         /\ req[p].closed = <<>> =>
              new.edited = req[p].now /\ new.closed = old.closed
         /\ req[p].closed # <<>> =>
              new.closed = req[p].closed[1] /\ new.edited = NoTime

\* An editThread of the author with closed given succeeded on a Thread that
\* carried an edited marker; its title and body were over the caps.
C18_Witness ==
  \E p \in Procs :
    /\ SoloDone(p, "editThread")
    /\ req[p].closed = <<TRUE>>
    /\ req[p].pre[1].threads[req[p].id].edited # NoTime
    /\ req[p].title > TitleCap /\ req[p].body > BodyCap

\* C19: adminEditThread goes through only for a caller with the admin role;
\* any other caller gets Unauthorized (401) and the store stays as found.
\* One that succeeded with no other request beside it has left edited at the
\* time of this edit when pined and closed were both omitted, and null when
\* either was given.
C19_AdminEdit ==
  \A p \in Procs :
    /\ (req[p].op = "adminEditThread" /\ req[p].role # "admin") =>
         /\ req[p].pc = "failed" /\ req[p].status = 401
         /\ StoreAsFound(p)
    /\ (req[p].op = "adminEditThread" /\ Succeeded(p)) => req[p].role = "admin"
    /\ SoloDone(p, "adminEditThread") =>
         LET new == threads[req[p].id]
         IN new.exists =>
              /\ (req[p].pined = <<>> /\ req[p].closed = <<>>) => new.edited = req[p].now
              /\ (req[p].pined # <<>> \/ req[p].closed # <<>>) => new.edited = NoTime

\* An adminEditThread by a caller without the admin role was refused on the
\* stored Thread; then one by an admin with only pined given succeeded on it
\* and left no edited marker.
C19_Witness ==
  \E p, q \in Procs :
    /\ req[q].op = "adminEditThread" /\ req[q].role = "user"
    /\ req[q].status = 401 /\ threads[req[q].id].exists
    /\ SoloDone(p, "adminEditThread")
    /\ req[p].id = req[q].id
    /\ req[p].pined # <<>> /\ req[p].closed = <<>>
    /\ threads[req[p].id].edited = NoTime

BoardOps == {"createBoard", "editBoard"}

\* A non-negative integer, as the claim reads a position.
NonNegInteger(pos) == pos.kind = "int" /\ pos.val >= 0

\* C20: a createBoard or editBoard request of a caller with the admin role
\* (and a name that is not empty) fails with InvalidArgument (400) exactly
\* when the title is empty after trimming or the position is not a
\* non-negative integer, so that a non-empty title with position 0 is
\* accepted; a request of any other caller fails with Unauthorized (401) and
\* leaves the store as found.
C20_BoardValidation ==
  \A p \in Procs :
    req[p].op \in BoardOps =>
      /\ req[p].role # "admin" =>
           /\ req[p].pc = "failed" /\ req[p].status = 401
           /\ StoreAsFound(p)
      /\ (req[p].role = "admin" /\ req[p].name # 0) =>
           ((req[p].pc = "failed" /\ req[p].status = 400)
              <=> (req[p].title = 0 \/ ~NonNegInteger(req[p].position)))

\* C21: the Board a createBoard has just stored has threadsCount = 0,
\* answersCount = 0, and newestThread and newestAnswer both equal to its
\* createdAt.
C21_NewBoardDefaults ==
  \A p \in Procs :
    (req[p].op = "createBoard" /\ Succeeded(p) /\ boards[req[p].newId].exists) =>
      LET b == boards[req[p].newId]
      IN /\ b.threadsCount = 0 /\ b.answersCount = 0
         /\ b.createdAt = req[p].now
         /\ b.newestThread = b.createdAt
         /\ b.newestAnswer = b.createdAt

\* C22: a deleteBoard by an admin that succeeded with no other request
\* beside it has removed the named Board and nothing else: every Thread and
\* Answer, those of the deleted Board included, and every other Board are as
\* the request found them.
C22_DeleteBoardFrame ==
  \A p \in Procs :
    SoloDone(p, "deleteBoard") =>
      LET before == req[p].pre[1]
      IN /\ req[p].role = "admin"
         /\ before.boards[req[p].id].exists
         /\ boards = [before.boards EXCEPT ![req[p].id] = Null]
         /\ threads = before.threads
         /\ answers = before.answers

\* Board 1, holding a Thread and an Answer, was deleted after a second Board
\* had been created; the Thread, the Answer and the second Board are stored.
C22_Witness ==
  \E p \in Procs :
    /\ SoloDone(p, "deleteBoard") /\ req[p].id = 1
    /\ \E b \in BoardIds : b # 1 /\ boards[b].exists
    /\ \E t \in ThreadIds : threads[t].exists /\ threads[t].boardId = 1
    /\ \E a \in AnswerIds : answers[a].exists /\ answers[a].boardId = 1

\* ---------------------------------------------------------------------
\* C23: a request of any of the twelve mutating operations that is refused
\* by validation (400) or by authorization (401) leaves the stored Boards,
\* Threads and Answers exactly as it found them.
C23_RejectedLeavesStore ==
  \A p \in Procs :
    (req[p].pc = "failed" /\ req[p].status \in {400, 401}) => StoreAsFound(p)

\* A request refused with 401 or 400 that ran alone after an earlier request
\* had created a document.
C23_Witness ==
  \E p, q \in Procs :
    /\ q < p /\ Succeeded(q) /\ req[q].newId # NoId
    /\ req[p].pc = "failed" /\ req[p].status \in {400, 401}
    /\ Last(p) /\ req[p].pre # <<>>

\* ---------------------------------------------------------------------
\* C24: a createThread whose boardId names no stored Board, or a
\* createAnswer whose threadId names no stored Thread, does not succeed and
\* leaves the store as it found it.
C24_MissingParentFails ==
  \A p \in Procs :
    (/\ req[p].op \in {"createThread", "createAnswer"}
     /\ req[p].id # NoId
     /\ req[p].pc \in Final
     /\ Last(p) /\ req[p].pre # <<>>
     /\ IF req[p].op = "createThread"
          THEN ~req[p].pre[1].boards[req[p].id].exists
          ELSE ~req[p].pre[1].threads[req[p].id].exists)
    => (req[p].pc # "done" /\ Store = req[p].pre[1])

\* ---------------------------------------------------------------------
\* C25: a createThread, editThread or adminEditThread that succeeded stores
\* the first min(n, 100) characters of its title of length n and the first
\* min(m, 1000) characters of its body of length m; a createAnswer or
\* editAnswer that succeeded stores the first min(m, 1000) characters of its
\* body. (Texts are carried by their length: what is stored is the prefix of
\* that length.)
C25_StoredLengths ==
  \A p \in Procs :
    /\ (req[p].op = "createThread" /\ Succeeded(p) /\ threads[req[p].newId].exists) =>
         /\ threads[req[p].newId].title = Min(req[p].title, TitleCap)
         /\ threads[req[p].newId].body = Min(req[p].body, BodyCap)
    /\ (req[p].op = "createAnswer" /\ Succeeded(p) /\ answers[req[p].newId].exists) =>
         answers[req[p].newId].body = Min(req[p].body, BodyCap)
    /\ ((SoloDone(p, "editThread") \/ SoloDone(p, "adminEditThread"))
          /\ threads[req[p].id].exists) =>
         /\ threads[req[p].id].title = Min(req[p].title, TitleCap)
         /\ threads[req[p].id].body = Min(req[p].body, BodyCap)
    /\ SoloDone(p, "editAnswer") =>
         answers[req[p].id].body = Min(req[p].body, BodyCap)

\* A createThread with a title below its cap and a body above its cap
\* succeeded, and after it a createAnswer with a body above the cap.
C25_Witness ==
  \E p, q \in Procs :
    /\ req[p].op = "createThread" /\ Succeeded(p) /\ threads[req[p].newId].exists
    /\ req[p].title < TitleCap /\ req[p].body > BodyCap
    /\ threads[req[p].newId].title = req[p].title
    /\ threads[req[p].newId].body = BodyCap
    /\ req[q].op = "createAnswer" /\ Succeeded(q) /\ answers[req[q].newId].exists
    /\ req[q].body > BodyCap
    /\ answers[req[q].newId].body = BodyCap

\* ---------------------------------------------------------------------
\* C26: under fair scheduling, with a store whose operations return, every
\* request that was started eventually has its response sent.
C26_EveryRequestAnswered ==
  \A p \in Procs : (req[p].pc # "idle") ~> (req[p].pc \in {"done", "failed"})

\* ---------------------------------------------------------------------
\* C27: when createBoard, createThread, createAnswer and like-toggle
\* requests run one after the other, then after every request each existing
\* Board's threadsCount and answersCount and each existing Thread's
\* answersCount equal the numbers of stored children, a Board's newestThread
\* is the createdAt of the Thread created last under it, and a Thread's and
\* a Board's newestAnswer is the createdAt of the Answer created last under
\* them.
C27_SequentialCreations ==
  Quiescent =>
    /\ \A b \in BoardIds :
         boards[b].exists =>
           /\ boards[b].threadsCount = Cardinality(ThreadsOfBoard(b))
           /\ boards[b].answersCount = Cardinality(AnswersOfBoard(b))
           /\ ThreadsOfBoard(b) # {} =>
                boards[b].newestThread = threads[Max(ThreadsOfBoard(b))].createdAt
           /\ AnswersOfBoard(b) # {} =>
                boards[b].newestAnswer = answers[Max(AnswersOfBoard(b))].createdAt
    /\ \A t \in ThreadIds :
         threads[t].exists =>
           /\ threads[t].answersCount = Cardinality(AnswersOfThread(t))
           /\ AnswersOfThread(t) # {} =>
                threads[t].newestAnswer = answers[Max(AnswersOfThread(t))].createdAt

\* A createThread and then a createAnswer under the new Thread have both
\* succeeded, the Answer at a later time than the Thread.
C27_Witness ==
  \E p, q \in Procs :
    /\ Quiescent /\ p < q
    /\ req[p].op = "createThread" /\ Succeeded(p)
    /\ req[q].op = "createAnswer" /\ Succeeded(q)
    /\ req[q].id = req[p].newId
    /\ req[q].now > req[p].now
    /\ boards[req[p].id].exists

\* ---------------------------------------------------------------------
\* C28: a deleteThread that ran alone leaves every Board as it found it but
\* for threadsCount of the Thread's Board, one lower, and every other Thread
\* as it found it; a deleteAnswer that ran alone leaves every Board and every
\* other Answer as it found them, and every Thread but for answersCount of
\* the Answer's Thread, one lower. Neither changes a Board's answersCount,
\* newestThread or newestAnswer, nor a Thread's newestAnswer.
C28_DeleteFrame ==
  \A p \in Procs :
    /\ SoloDone(p, "deleteThread") =>
         LET before == req[p].pre[1]
             owner == before.threads[req[p].id].boardId
         IN /\ \A b \in BoardIds :
                 boards[b] =
                   IF b = owner /\ before.boards[b].exists
                     THEN [before.boards[b] EXCEPT !.threadsCount = @ - 1]
                     ELSE before.boards[b]
            /\ \A t \in ThreadIds \ {req[p].id} : threads[t] = before.threads[t]
            /\ ~threads[req[p].id].exists
    /\ SoloDone(p, "deleteAnswer") =>
         LET before == req[p].pre[1]
             owner == before.answers[req[p].id].threadId
         IN /\ boards = before.boards
            /\ \A t \in ThreadIds :
                 threads[t] =
                   IF t = owner /\ before.threads[t].exists
                     THEN [before.threads[t] EXCEPT !.answersCount = @ - 1]
                     ELSE before.threads[t]
            /\ \A a \in AnswerIds \ {req[p].id} : answers[a] = before.answers[a]
            /\ ~answers[req[p].id].exists

\* A deleteAnswer has succeeded and after it a deleteThread, run alone, of a
\* Thread whose Board is stored.
C28_Witness ==
  \E p, q \in Procs :
    /\ q < p
    /\ req[q].op = "deleteAnswer" /\ Succeeded(q)
    /\ SoloDone(p, "deleteThread")
    /\ boards[req[p].pre[1].threads[req[p].id].boardId].exists

\* ---------------------------------------------------------------------
\* C29: when only createThread and createAnswer requests have run, however
\* they overlapped, then once all have ended every existing Board's
\* newestThread is the greatest createdAt of its Threads, and every existing
\* Thread's and Board's newestAnswer is the greatest createdAt of their
\* Answers.
C29_NewestIsMaxAfterCreations ==
  (Quiescent /\ OnlyOps({"createThread", "createAnswer"})) =>
    /\ \A b \in BoardIds :
         boards[b].exists =>
           /\ ThreadsOfBoard(b) # {} =>
                boards[b].newestThread =
                  Max({threads[t].createdAt : t \in ThreadsOfBoard(b)})
           /\ AnswersOfBoard(b) # {} =>
                boards[b].newestAnswer =
                  Max({answers[a].createdAt : a \in AnswersOfBoard(b)})
    /\ \A t \in ThreadIds :
         (threads[t].exists /\ AnswersOfThread(t) # {}) =>
           threads[t].newestAnswer =
             Max({answers[a].createdAt : a \in AnswersOfThread(t)})

\* ---------------------------------------------------------------------
\* The creations that have saved their child and not yet updated a parent.
PendingThreads(b) ==
  {p \in Procs : req[p].op = "createThread" /\ req[p].pc = "inc" /\ req[p].id = b}
PendingBoardAnswers(b) ==
  {p \in Procs : /\ req[p].op = "createAnswer" /\ req[p].pc = "incBoard"
                 /\ req[p].snap.boardId = b}
PendingThreadAnswers(t) ==
  {p \in Procs : /\ req[p].op = "createAnswer"
                 /\ req[p].pc \in {"incBoard", "incThread"}
                 /\ req[p].id = t}

\* C30: in every state of an execution of createThread and createAnswer
\* requests, a counter is never above the number of stored children: each
\* existing Board's threadsCount is the number of its stored Threads less
\* the createThread requests that have saved their Thread and not yet
\* updated the Board, and each answersCount is the number of stored Answers
\* less the createAnswer requests that have saved their Answer and not yet
\* updated that parent. A request that goes no further after its save
\* leaves the counter one too low for good.
C30_CountersNeverAhead ==
  OnlyOps({"createThread", "createAnswer"}) =>
    /\ \A b \in BoardIds :
         boards[b].exists =>
           /\ boards[b].threadsCount =
                Cardinality(ThreadsOfBoard(b)) - Cardinality(PendingThreads(b))
           /\ boards[b].answersCount =
                Cardinality(AnswersOfBoard(b)) - Cardinality(PendingBoardAnswers(b))
           /\ boards[b].threadsCount <= Cardinality(ThreadsOfBoard(b))
           /\ boards[b].answersCount <= Cardinality(AnswersOfBoard(b))
    /\ \A t \in ThreadIds :
         threads[t].exists =>
           /\ threads[t].answersCount =
                Cardinality(AnswersOfThread(t)) - Cardinality(PendingThreadAnswers(t))
           /\ threads[t].answersCount <= Cardinality(AnswersOfThread(t))

\* A createThread has saved its Thread and not yet updated the Board, and a
\* createAnswer has saved its Answer and updated the Board but not yet the
\* Thread: threadsCount and the Thread's answersCount are one too low.
C30_Witness ==
  \E p, q \in Procs :
    /\ req[p].op = "createThread" /\ req[p].pc = "inc" /\ boards[req[p].id].exists
    /\ boards[req[p].id].threadsCount = Cardinality(ThreadsOfBoard(req[p].id)) - 1
    /\ req[q].op = "createAnswer" /\ req[q].pc = "incThread"
    /\ threads[req[q].id].answersCount = Cardinality(AnswersOfThread(req[q].id)) - 1

\* ---------------------------------------------------------------------
\* C31: the write of an editThread that omitted closed leaves the Thread's
\* closed as it is stored at that moment, and the write of an
\* adminEditThread leaves each flag it omitted, pined or closed, as it is
\* stored at that moment, whatever other requests wrote since the edit read
\* the Thread.
C31_ContentEditKeepsFlags ==
  [][\A p \in Procs :
       (/\ req[p].op \in {"editThread", "adminEditThread"}
        /\ req[p].pc = "update" /\ req'[p].pc = "refetch"
        /\ threads[req[p].id].exists)
       => /\ req[p].closed = <<>> =>
               threads'[req[p].id].closed = threads[req[p].id].closed
          /\ (req[p].op = "adminEditThread" /\ req[p].pined = <<>>) =>
               threads'[req[p].id].pined = threads[req[p].id].pined]_vars

\* ---------------------------------------------------------------------
\* C32: an editThread, adminEditThread or editAnswer that ran alone leaves
\* every Board, every other Thread and every other Answer as it found them,
\* and of the entity it names changes at most title, body, closed and edited
\* (editThread), those and pined (adminEditThread), body and edited
\* (editAnswer): likes, author, createdAt, boardId, threadId, answersCount
\* and newestAnswer are as found.
C32_EditFrame ==
  \A p \in Procs :
    /\ (SoloDone(p, "editThread") \/ SoloDone(p, "adminEditThread")) =>
         LET before == req[p].pre[1]
             old == before.threads[req[p].id]
             new == threads[req[p].id]
         IN /\ boards = before.boards
            /\ answers = before.answers
            /\ \A t \in ThreadIds \ {req[p].id} : threads[t] = before.threads[t]
            /\ new.exists = old.exists
            /\ old.exists =>
                 /\ new = [old EXCEPT !.title = new.title, !.body = new.body,
                                      !.pined = new.pined, !.closed = new.closed,
                                      !.edited = new.edited]
                 /\ req[p].op = "editThread" => new.pined = old.pined
    /\ SoloDone(p, "editAnswer") =>
         LET before == req[p].pre[1]
             old == before.answers[req[p].id]
             new == answers[req[p].id]
         IN /\ boards = before.boards
            /\ threads = before.threads
            /\ \A a \in AnswerIds \ {req[p].id} : answers[a] = before.answers[a]
            /\ new.exists /\ old.exists
            /\ new = [old EXCEPT !.body = new.body, !.edited = new.edited]

\* An adminEditThread has pinned a Thread and after it an editThread of the
\* author, run alone, has changed the Thread's title; the Thread is still
\* pinned.
C32_Witness ==
  \E p, q \in Procs :
    /\ q < p
    /\ req[q].op = "adminEditThread" /\ Succeeded(q) /\ req[q].pined = <<TRUE>>
    /\ SoloDone(p, "editThread") /\ req[p].id = req[q].id
    /\ threads[req[p].id].pined
    /\ threads[req[p].id].title = TitleCap

\* ---------------------------------------------------------------------
\* C33: in every reachable state, every stored Answer whose Thread is still
\* stored has the boardId of that Thread.
C33_AnswerBoardIsThreadBoard ==
  \A a \in AnswerIds :
    (answers[a].exists /\ threads[answers[a].threadId].exists) =>
      answers[a].boardId = threads[answers[a].threadId].boardId

\* A createAnswer has stored an Answer under a Thread created under another
\* boardId than the first Board's.
C33_Witness ==
  \E p \in Procs :
    /\ req[p].op = "createAnswer" /\ Succeeded(p)
    /\ answers[req[p].newId].exists
    /\ threads[req[p].id].exists
    /\ threads[req[p].id].boardId # 1
    /\ answers[req[p].newId].boardId = threads[req[p].id].boardId

\* ---------------------------------------------------------------------
\* C34: a createAnswer that names a stored Thread and ran alone is
\* accepted whether the Thread is closed or open: it stores its Answer under
\* that Thread and leaves the Thread's and the Board's answersCount one
\* higher.
C34_ClosedThreadAnswered ==
  \A p \in Procs :
    (/\ req[p].op = "createAnswer" /\ req[p].id # NoId /\ req[p].pc \in Final
     /\ Last(p) /\ req[p].pre # <<>>
     /\ req[p].pre[1].threads[req[p].id].exists)
    => LET before == req[p].pre[1]
           t == req[p].id
           b == before.threads[t].boardId
       IN /\ Succeeded(p)
          /\ answers[req[p].newId].exists
          /\ ~before.answers[req[p].newId].exists
          /\ answers[req[p].newId].threadId = t
          /\ threads[t].answersCount = before.threads[t].answersCount + 1
          /\ before.boards[b].exists =>
               boards[b].answersCount = before.boards[b].answersCount + 1

\* A createAnswer run alone has succeeded on a Thread that was closed when
\* the request found it.
C34_Witness ==
  \E p \in Procs :
    /\ SoloDone(p, "createAnswer")
    /\ req[p].pre[1].threads[req[p].id].closed
    /\ answers[req[p].newId].exists
    /\ threads[req[p].id].answersCount =
         req[p].pre[1].threads[req[p].id].answersCount + 1

\* ---------------------------------------------------------------------
\* C35: whenever no like request of the Card is in flight, the heart
\* (liked) tells whether the current user is in the displayed likes list.
C35_HeartMatchesLikes ==
  ~CardInFlight => (card.liked <=> HasUser(card.likes, CardUser))

\* C36: the Dropdown has at most one page request in flight; from the
\* handleScroll that set page to nextPage until the answer, moreTrigger is
\* false; the pages asked for are strictly increasing, so each is fetched at
\* most once and the pages are appended in order; and a request is in flight
\* only while hasNextPage is true.
C36_OnePageAtATime ==
  /\ Cardinality(notes.flight) <= 1
  /\ (notes.flight # {} /\ Len(notes.asked) > 1) => ~dropdown.moreTrigger
  /\ \A i, j \in DOMAIN notes.asked : i < j => notes.asked[i] < notes.asked[j]
  /\ notes.flight # {} => dropdown.hasNextPage
  /\ \A resp \in notes.flight : resp.page = notes.asked[Len(notes.asked)]

C36_Witness ==
  /\ notes.asked = <<1, 2, 3>>
  /\ notes.flight = {}
  /\ ~dropdown.hasNextPage
  /\ dropdown.moreTrigger
  /\ Len(dropdown.notifications) > 2 * Limit

\* C37: no notification appears twice in the list the Dropdown shows,
\* whatever the interleaving of page answers (appended) and newNotification
\* events (prepended).
C37_NoNotificationTwice ==
  \A i, j \in DOMAIN dropdown.notifications :
    i # j => dropdown.notifications[i] # dropdown.notifications[j]

\* C38: when a page request throws or is answered with an error, the step
\* that handles it leaves the Dropdown with loading false, moreLoading false
\* and noData true, and with notifications, page, nextPage, hasNextPage (and
\* moreTrigger) as they were; noData goes from true to false only in a step
\* that handles a successful answer; and while noData is true the Dropdown
\* shows neither loader.
C38_FetchErrorEnd ==
  /\ [](dropdown.noData => ~dropdown.loading /\ ~dropdown.moreLoading)
  /\ [][/\ \A resp \in notes.flight :
             (resp \notin notes'.flight /\ resp.error) =>
               dropdown' = [dropdown EXCEPT !.loading = FALSE,
                                            !.moreLoading = FALSE,
                                            !.noData = TRUE]
        /\ (dropdown.noData /\ ~dropdown'.noData) =>
             \E resp \in notes.flight \ notes'.flight : ~resp.error]_vars

C38_Witness ==
  /\ dropdown.noData /\ ~dropdown.loading /\ ~dropdown.moreLoading
  /\ notes.asked = <<1, 2>> /\ notes.flight = {}
  /\ dropdown.page = 2 /\ dropdown.nextPage = 2 /\ dropdown.hasNextPage
  /\ Len(dropdown.notifications) >= Limit

====
